---- MODULE Spec2Model ----
(***************************************************************************)
(* State-machine model of the PaperFuse page-collection editor             *)
(* (src/unnamed/part_000; src/app.js is the earlier variant of the same    *)
(* handlers without rotation and without the export dialog).               *)
(*                                                                         *)
(* state.pages is an array of references to page objects: `pages` is the   *)
(* sequence of references (a page object's reference is its id) and `heap` *)
(* holds the objects, so that an array captured by a suspended export      *)
(* (`pagesToMerge`, `selectedPages`) shares the objects with state.pages   *)
(* exactly as in JavaScript.  Every `await` of an async handler is a       *)
(* suspension point: the synchronous code between two awaits is one        *)
(* action, and the handlers of user events may run between any two.        *)
(***************************************************************************)
EXTENDS Integers, Sequences, FiniteSets, TLC

\* ----------------------------------------------------------------- bounds
MaxIds == 3          \* page objects created in one session
MaxBatches == 2      \* accepted processFiles calls in one session
MaxFiles == 2        \* files in one batch
MaxFilePages == 3    \* pages of one uploaded document
MaxTasks == 2        \* async handlers suspended at the same time
MaxTurns == 1        \* quarter turns held by the pages of the session
MaxOpsIds == 2       \* page objects created in one session of SpecOps
MaxOpsBatches == 1   \* accepted processFiles calls in one session of SpecOps

\* ------------------------------------------------------ program constants
NULL == 0                      \* state.draggedId: null
MaxFilenameLength == 100       \* validateFilenameInput: value.length > 100

VARIABLES
    pages,            \* state.pages: sequence of page references (ids)
    heap,             \* the page objects, by reference
    selectedIds,      \* state.selectedIds
    draggedId,        \* state.draggedId
    isProcessing,     \* state.isProcessing
    currentFilename,  \* state.currentFilename
    filenameTemplate, \* state.filenameTemplate
    filenameInput,    \* elements.filenameInput.value
    confirmDisabled,  \* elements.confirmExport.disabled
    modalVisible,     \* elements.exportModal has class 'visible'
    loading,          \* loadingOverlay / loadingText / progressFill
    pageGrid,         \* elements.pageGrid: the ids of the rendered cards
    tasks,            \* the suspended async handlers, by slot
    nextId,           \* the next value generateId() returns
    batches,          \* accepted processFiles calls so far
    dragStartIndex,   \* history: the index the dragged page had at dragstart
    last              \* history: the handler or continuation that ran last,
                      \* with the toast it showed and the files it emitted

coll == <<pages, heap, selectedIds>>
fname == <<currentFilename, filenameTemplate, filenameInput, confirmDisabled>>
ctrs == <<nextId, batches>>
drag == <<draggedId, dragStartIndex>>
vars == <<pages, heap, selectedIds, draggedId, isProcessing, currentFilename,
          filenameTemplate, filenameInput, confirmDisabled, modalVisible,
          loading, pageGrid, tasks, nextId, batches, dragStartIndex, last>>

\* ---------------------------------------------------------------- helpers
PageIds == 1..MaxIds
Slots == 1..MaxTasks
Idle == [kind |-> "idle"]

RECURSIVE SumPc(_, _)
\* sum of the page counts of the first n files
SumPc(files, n) == IF n = 0 THEN 0 ELSE SumPc(files, n - 1) + files[n].pc

\* Array.prototype.findIndex(p => p.id === id): 0-based index, -1 if absent
findIndex(arr, id) ==
    IF \E k \in 1..Len(arr) : arr[k] = id
    THEN (CHOOSE k \in 1..Len(arr) :
              arr[k] = id /\ \A j \in 1..(k - 1) : arr[j] # id) - 1
    ELSE -1

RECURSIVE filter(_, _)
\* Array.prototype.filter(p => ids.has(p.id)): a new array, order kept
filter(arr, ids) ==
    IF arr = <<>> THEN <<>>
    ELSE IF Head(arr) \in ids THEN <<Head(arr)>> \o filter(Tail(arr), ids)
         ELSE filter(Tail(arr), ids)

Range(arr) == {arr[k] : k \in 1..Len(arr)}

\* File.type of a PDF file, and of a file that is none
PdfType == "application/pdf"
OtherType == "text/plain"

\* byte lengths of uploaded files: multiples of 240, so that a share
\* length * k / n of a document of up to four pages and its 0.85 are
\* whole numbers; one length for each unit estimateFileSize prints
Lengths == {240, 2400, 2400000}

\* uploaded PDF documents: a document is known by its page count (what
\* getPageCount returns once PDFDocument.load has resolved) and by the
\* length of its bytes
SizedFiles ==
    [pc : 1..MaxFilePages, type : {PdfType}, length : Lengths, rotate : {0}]

\* PDF documents whose pages carry a rotation of their own (the /Rotate
\* entry pdf-lib copies and pdf.js renders), one value for a document
TurnedFiles ==
    [pc : 1..MaxFilePages, type : {PdfType}, length : {2400},
     rotate : {0, 90, 180, 270}]

\* the PDF documents of the editing specifications: one length
Files == {file \in SizedFiles : file.length = 2400}

\* files that are no PDF documents: PDFDocument.load throws on their bytes
OtherFiles == [pc : {1}, type : {OtherType}, length : {240}, rotate : {0}]

\* FileList values: e.dataTransfer.files, e.target.files
BatchesOf(S) == UNION {[1..n -> S] : n \in 1..MaxFiles}

BatchesOfFiles == BatchesOf(Files)

\* pages the in-flight ingestions may still create
Outstanding(tks) ==
    LET rest(s) == IF tks[s].kind = "ingest"
                   THEN SumPc(tks[s].files, Len(tks[s].files)) - tks[s].processedPages
                   ELSE 0
        RECURSIVE sum(_)
        sum(n) == IF n = 0 THEN 0 ELSE sum(n - 1) + rest(n)
    IN sum(MaxTasks)

FreeSlot(tks) == CHOOSE s \in Slots :
                     tks[s] = Idle /\ \A r \in 1..(s - 1) : tks[r] # Idle

\* the arrays suspended handlers hold: a merge whose pagesToMerge IS the
\* state.pages array (no selection) sees in-place changes (push, splice)
InPlace(tks, arr) ==
    [s \in Slots |->
        IF tks[s].kind = "merge" /\ tks[s].live
        THEN [tks[s] EXCEPT !.list = arr] ELSE tks[s]]

\* state.pages = <new array>: a merge holding the old array keeps it
Replaced(tks) ==
    [s \in Slots |->
        IF tks[s].kind = "merge" /\ tks[s].live
        THEN [tks[s] EXCEPT !.live = FALSE] ELSE tks[s]]

\* page objects still referenced (garbage collection is unobservable)
Reachable(arr, tks) ==
    Range(arr) \cup UNION {IF tks[s].kind \in {"merge", "split"}
                           THEN Range(tks[s].list) \cup
                                (IF tks[s].cur = NULL THEN {} ELSE {tks[s].cur})
                           ELSE {} : s \in Slots}

Collect(h, arr, tks) ==
    [id \in (DOMAIN h) \cap Reachable(arr, tks) |-> h[id]]

\* ----------------------------------------------------- loading indicator
\* showLoading(text)
showLoading(text) == [visible |-> TRUE, text |-> text, num |-> 0, den |-> 1]
\* updateLoadingProgress(text, percent), percent = num / den * 100
updateLoadingProgress(ld, text, n, d) ==
    [ld EXCEPT !.text = text, !.num = n, !.den = d]
\* hideLoading()
hideLoading(ld) == [ld EXCEPT !.visible = FALSE]

\* ------------------------------------------------------------------- Init
Init ==
    /\ pages = <<>>
    /\ heap = [id \in {} |-> 0]
    /\ selectedIds = {}
    /\ draggedId = NULL
    /\ dragStartIndex = -1
    /\ isProcessing = FALSE
    /\ currentFilename = <<"m", "e", "r", "g", "e", "d">>
    /\ filenameTemplate = "custom"
    /\ filenameInput = <<>>
    /\ confirmDisabled = FALSE
    /\ modalVisible = FALSE
    /\ loading = [visible |-> FALSE, text |-> <<"">>, num |-> 0, den |-> 1]
    /\ pageGrid = <<>>
    /\ tasks = [s \in Slots |-> Idle]
    /\ nextId = 1
    /\ batches = 0
    /\ last = [op |-> "init"]

\* ------------------------------------------------------------ processFiles
\* generateId(): a value no other page has
generateId(n) == n

\* the catch and finally blocks of processFiles
IngestFailed(s) ==
    /\ loading' = hideLoading(loading)
    /\ isProcessing' = FALSE
    /\ tasks' = [tasks EXCEPT ![s] = Idle]
    /\ last' = [op |-> "processFiles.end", ok |-> FALSE,
                toast |-> <<"error", "Error processing PDF">>,
                batch |-> tasks[s].batch, phase |-> tasks[s].pc,
                doc |-> tasks[s].f, len0 |-> tasks[s].len0,
                before |-> SumPc(tasks[s].files, tasks[s].f - 1),
                whole |-> SumPc(tasks[s].files, Len(tasks[s].files))]

\* processFiles without its `if (state.isProcessing) return`
ProcessFilesUnguarded(files) ==
    /\ \E s \in Slots : tasks[s] = Idle
    /\ isProcessing' = TRUE
    /\ loading' = showLoading(<<"Loading PDF files...">>)
    /\ batches' = batches + 1
    /\ tasks' = [tasks EXCEPT ![FreeSlot(tasks)] =
           [kind |-> "ingest", batch |-> batches + 1, files |-> files,
            pc |-> "count", f |-> 1, i |-> 0, totalPages |-> 0,
            processedPages |-> 0, len0 |-> Len(pages)]]
    /\ last' = [op |-> "processFiles", accepted |-> TRUE]
    /\ UNCHANGED <<coll, drag, fname, modalVisible, pageGrid, nextId>>

\* processFiles(files), up to its first await
ProcessFiles(files) ==
    IF isProcessing
    THEN /\ last' = [op |-> "processFiles", accepted |-> FALSE]
         /\ UNCHANGED <<coll, drag, isProcessing, fname, modalVisible,
                        loading, pageGrid, tasks, ctrs>>
    ELSE /\ \E s \in Slots : tasks[s] = Idle
         /\ batches < MaxBatches
         /\ (nextId - 1) + Outstanding(tasks) + SumPc(files, Len(files)) <= MaxIds
         /\ isProcessing' = TRUE
         /\ loading' = showLoading(<<"Loading PDF files...">>)
         /\ batches' = batches + 1
         /\ tasks' = [tasks EXCEPT ![FreeSlot(tasks)] =
                [kind |-> "ingest", batch |-> batches + 1, files |-> files,
                 pc |-> "count", f |-> 1, i |-> 0, totalPages |-> 0,
                 processedPages |-> 0, len0 |-> Len(pages)]]
         /\ last' = [op |-> "processFiles", accepted |-> TRUE]
         /\ UNCHANGED <<coll, drag, fname, modalVisible, pageGrid,
                        nextId>>

\* first pass, one file: arrayBuffer(), PDFDocument.load (ok: they resolve;
\* otherwise one of them throws, as load does on a file that is no PDF),
\* getPageCount
IngestCount(s, ok) ==
    /\ tasks[s].kind = "ingest" /\ tasks[s].pc = "count"
    /\ ok => tasks[s].files[tasks[s].f].type = PdfType
    /\ LET t == tasks[s]
           file == t.files[t.f]
       IN IF ~ok
          THEN IngestFailed(s)
          ELSE /\ tasks' = [tasks EXCEPT ![s] =
                    IF t.f < Len(t.files)
                    THEN [t EXCEPT !.totalPages = @ + file.pc, !.f = @ + 1]
                    ELSE [t EXCEPT !.totalPages = @ + file.pc, !.f = 1,
                                   !.pc = "open"]]
               /\ last' = [op |-> "processFiles.count"]
               /\ UNCHANGED <<isProcessing, loading>>
    /\ UNCHANGED <<coll, drag, fname, modalVisible, pageGrid, ctrs>>

\* second pass, one file: arrayBuffer(), slice(), PDFDocument.load,
\* pdfjsLib.getDocument (ok: all resolve); then the first
\* updateLoadingProgress of the file's pages
IngestOpen(s, ok) ==
    /\ tasks[s].kind = "ingest" /\ tasks[s].pc = "open"
    /\ ok => tasks[s].files[tasks[s].f].type = PdfType
    /\ LET t == tasks[s]
       IN IF ~ok
          THEN IngestFailed(s)
          ELSE /\ tasks' = [tasks EXCEPT ![s] = [t EXCEPT !.pc = "thumb", !.i = 0]]
               /\ loading' = updateLoadingProgress(loading,
                      <<"Processing page", t.processedPages + 1, t.totalPages>>,
                      t.processedPages + 1, t.totalPages)
               /\ last' = [op |-> "processFiles.open"]
               /\ UNCHANGED isProcessing
    /\ UNCHANGED <<coll, drag, fname, modalVisible, pageGrid, ctrs>>

\* the Uint8Array processFiles keeps for file f of a batch: its identity,
\* its length, and what the document its bytes encode holds: the number
\* of pages and the rotation stored with them
Uint8Array(batch, f, file) ==
    <<batch, f, file.length, file.pc, file.rotate>>

\* pdfBytes.length
byteLength(pdfBytes) == pdfBytes[3]

\* (await PDFDocument.load(pdfBytes)).getPageCount()
getPageCount(pdfBytes) == pdfBytes[4]

\* the page object processFiles creates for page i of file f of a batch
pageData(id, batch, f, i, file) ==
    [id |-> id, pageIndex |-> i, originalPageNumber |-> i + 1,
     pdfBytes |-> Uint8Array(batch, f, file),
     thumbnail |-> <<batch, f, i + 1>>, rotation |-> 0]

\* an assignment of a new array in the place of the push
pushReplacing(arr, id) == <<id>>

\* an unshift in the place of the push
pushFront(arr, id) == <<id>> \o arr

\* state.pages.push(pageData)
push(arr, id) == Append(arr, id)

\* generateThumbnail resolves (ok) or throws; on success the page is pushed
\* and the loops run on to the next await or to the end of the try block
IngestThumb(s, ok) ==
    /\ tasks[s].kind = "ingest" /\ tasks[s].pc = "thumb"
    /\ LET t == tasks[s]
           file == t.files[t.f]
           arr == push(pages, generateId(nextId))
           done == t.processedPages + 1
       IN IF ~ok
          THEN IngestFailed(s) /\ UNCHANGED <<coll, pageGrid, ctrs>>
          ELSE /\ pages' = arr
               /\ heap' = [id \in (DOMAIN heap) \cup {generateId(nextId)} |->
                              IF id = generateId(nextId)
                              THEN pageData(id, t.batch, t.f, t.i, file)
                              ELSE heap[id]]
               /\ nextId' = nextId + 1
               /\ UNCHANGED <<selectedIds, batches>>
               /\ IF t.i + 1 < file.pc
                  THEN /\ tasks' = [InPlace(tasks, arr) EXCEPT ![s] =
                              [t EXCEPT !.i = @ + 1, !.processedPages = done]]
                       /\ loading' = updateLoadingProgress(loading,
                              <<"Processing page", done + 1, t.totalPages>>,
                              done + 1, t.totalPages)
                       /\ last' = [op |-> "processFiles.push"]
                       /\ UNCHANGED <<isProcessing, pageGrid>>
                  ELSE IF t.f < Len(t.files)
                  THEN /\ tasks' = [InPlace(tasks, arr) EXCEPT ![s] =
                              [t EXCEPT !.f = @ + 1, !.pc = "open",
                                        !.processedPages = done]]
                       /\ last' = [op |-> "processFiles.push"]
                       /\ UNCHANGED <<isProcessing, loading, pageGrid>>
                  ELSE /\ tasks' = [InPlace(tasks, arr) EXCEPT ![s] = Idle]
                       /\ loading' = hideLoading(loading)
                       /\ pageGrid' = arr
                       /\ isProcessing' = FALSE
                       /\ last' = [op |-> "processFiles.end", ok |-> TRUE,
                                   toast |-> <<"success", "Added", done,
                                               Len(t.files)>>,
                                   batch |-> t.batch, phase |-> "done",
                                   doc |-> 0, len0 |-> t.len0,
                                   before |-> SumPc(t.files, Len(t.files)),
                                   whole |-> SumPc(t.files, Len(t.files))]
    /\ UNCHANGED <<drag, fname, modalVisible>>

\* ------------------------------------------------------ upload entry points
\* handleFileDrop(e), e.dataTransfer.files = dropped
HandleFileDrop(dropped) ==
    LET files == SelectSeq(dropped, LAMBDA file : file.type = PdfType)
    IN IF Len(files) = 0
       THEN /\ last' = [op |-> "handleFileDrop",
                        toast |-> <<"error", "Please drop PDF files only">>]
            /\ UNCHANGED <<coll, drag, isProcessing, fname, modalVisible,
                           loading, pageGrid, tasks, ctrs>>
       ELSE ProcessFiles(files)

\* handleFileSelect(e), e.target.files = chosen
HandleFileSelect(chosen) ==
    IF Len(chosen) > 0
    THEN ProcessFiles(chosen)
    ELSE /\ last' = [op |-> "handleFileSelect"]
         /\ UNCHANGED <<coll, drag, isProcessing, fname, modalVisible,
                        loading, pageGrid, tasks, ctrs>>

\* ------------------------------------------------------------- renderPages
\* renderPages(): one card per page of state.pages, in order
renderPages(arr) == arr

\* ---------------------------------------------------------------- rotation
RECURSIVE Turns(_, _)
\* quarter turns held by the page objects ids of h
Turns(h, ids) ==
    IF ids = {} THEN 0
    ELSE LET id == CHOOSE x \in ids : TRUE
         IN h[id].rotation \div 90 + Turns(h, ids \ {id})

\* a half turn at every click
rotatedHalfTurn(r) == (r + 180) % 360

\* a rotation that is never reduced modulo 360
rotatedUnreduced(r) == r + 90

\* the new rotation of a page: 0 -> 90 -> 180 -> 270 -> 0
rotated(r) == (r + 90) % 360

\* rotatePage(id), from the rotate button of the card of page id.  The
\* history record counts (modulo 4) the successive calls on the same page
\* and keeps the rotation the page had before the first of them.
RotatePage(id) ==
    /\ id \in Range(pageGrid)
    /\ IF findIndex(pages, id) = -1
       THEN /\ last' = [op |-> "rotatePage", found |-> FALSE]
            /\ UNCHANGED heap
       ELSE LET again == last.op = "rotatePage" /\ last.found /\ last.id = id
            IN /\ heap' = [heap EXCEPT ![id].rotation = rotated(@)]
               /\ last' = [op |-> "rotatePage", found |-> TRUE, id |-> id,
                           n |-> IF again THEN (last.n + 1) % 4 ELSE 1,
                           from |-> IF again THEN last.from
                                    ELSE heap[id].rotation,
                           toast |-> <<"info", "Rotated to",
                                       rotated(heap[id].rotation)>>]
    /\ UNCHANGED <<pages, selectedIds, drag, isProcessing, fname,
                   modalVisible, loading, pageGrid, tasks, ctrs>>

\* --------------------------------------------------------------- selection
\* a click that selects and never deselects
toggledAddOnly(sel, id) == sel \cup {id}

\* state.selectedIds after the has / delete / add of togglePageSelection
toggled(sel, id) == IF id \in sel THEN sel \ {id} ELSE sel \cup {id}

\* togglePageSelection(id), from a click on the card of page id
TogglePageSelection(id) ==
    /\ id \in Range(pageGrid)
    /\ selectedIds' = toggled(selectedIds, id)
    /\ last' = [op |-> "togglePageSelection"]
    /\ UNCHANGED <<pages, heap, drag, isProcessing, fname, modalVisible,
                   loading, pageGrid, tasks, ctrs>>

\* selectAll()
SelectAll ==
    /\ selectedIds' = selectedIds \cup Range(pages)
    /\ pageGrid' = renderPages(pages)
    /\ last' = [op |-> "selectAll"]
    /\ UNCHANGED <<pages, heap, drag, isProcessing, fname, modalVisible,
                   loading, tasks, ctrs>>

\* a clearAll that forgets state.selectedIds.clear()
ClearAllKeepSelection ==
    /\ pages' = <<>>
    /\ tasks' = Replaced(tasks)
    /\ heap' = Collect(heap, <<>>, tasks')
    /\ pageGrid' = renderPages(<<>>)
    /\ last' = [op |-> "clearAll", toast |-> <<"info", "All pages cleared">>]
    /\ UNCHANGED <<selectedIds, drag, isProcessing, fname, modalVisible,
                   loading, ctrs>>

\* clearAll()
ClearAll ==
    /\ pages' = <<>>
    /\ selectedIds' = {}
    /\ tasks' = Replaced(tasks)
    /\ heap' = Collect(heap, <<>>, tasks')
    /\ pageGrid' = renderPages(<<>>)
    /\ last' = [op |-> "clearAll", toast |-> <<"info", "All pages cleared">>]
    /\ UNCHANGED <<drag, isProcessing, fname, modalVisible, loading, ctrs>>

\* a deleteSelected that forgets state.selectedIds.clear()
DeleteSelectedKeepSelection ==
    /\ IF Cardinality(selectedIds) = 0
       THEN /\ last' = [op |-> "deleteSelected", count |-> 0]
            /\ UNCHANGED <<coll, pageGrid, tasks>>
       ELSE /\ pages' = filter(pages, Range(pages) \ selectedIds)
            /\ tasks' = Replaced(tasks)
            /\ heap' = Collect(heap, pages', tasks')
            /\ pageGrid' = renderPages(pages')
            /\ last' = [op |-> "deleteSelected",
                        count |-> Cardinality(selectedIds),
                        toast |-> <<"success", "Deleted",
                                    Cardinality(selectedIds)>>]
            /\ UNCHANGED selectedIds
    /\ UNCHANGED <<drag, isProcessing, fname, modalVisible, loading, ctrs>>

\* deleteSelected()
DeleteSelected ==
    /\ IF Cardinality(selectedIds) = 0
       THEN /\ last' = [op |-> "deleteSelected", count |-> 0]
            /\ UNCHANGED <<coll, pageGrid, tasks>>
       ELSE /\ pages' = filter(pages, Range(pages) \ selectedIds)
            /\ selectedIds' = {}
            /\ tasks' = Replaced(tasks)
            /\ heap' = Collect(heap, pages', tasks')
            /\ pageGrid' = renderPages(pages')
            /\ last' = [op |-> "deleteSelected",
                        count |-> Cardinality(selectedIds),
                        toast |-> <<"success", "Deleted",
                                    Cardinality(selectedIds)>>]
    /\ UNCHANGED <<drag, isProcessing, fname, modalVisible, loading, ctrs>>

\* --------------------------------------------------------- drag and drop
\* Array.prototype.splice: the start index as splice normalises it
spliceStart(len, start) ==
    IF start < 0 THEN (IF len + start < 0 THEN 0 ELSE len + start)
    ELSE IF start > len THEN len ELSE start

\* a splice(start, 0) that removes nothing
spliceRemoveNone(arr, start) == arr

\* arr.splice(start, 1): the array left
spliceRemove(arr, start) ==
    LET k == spliceStart(Len(arr), start)
    IN [j \in 1..(IF k < Len(arr) THEN Len(arr) - 1 ELSE Len(arr)) |->
            IF j <= k THEN arr[j] ELSE arr[j + 1]]

\* an insertion one place too far: arr.splice(start + 1, 0, x)
spliceInsertAfter(arr, start, x) ==
    LET k == spliceStart(Len(arr), start + 1)
    IN [j \in 1..(Len(arr) + 1) |->
            IF j <= k THEN arr[j] ELSE IF j = k + 1 THEN x ELSE arr[j - 1]]

\* arr.splice(start, 0, x): the array left
spliceInsert(arr, start, x) ==
    LET k == spliceStart(Len(arr), start)
    IN [j \in 1..(Len(arr) + 1) |->
            IF j <= k THEN arr[j] ELSE IF j = k + 1 THEN x ELSE arr[j - 1]]

\* handlePageDragStart(e, id), from the card of page id
HandlePageDragStart(id) ==
    /\ id \in Range(pageGrid)
    /\ draggedId' = id
    /\ dragStartIndex' = findIndex(pages, id)
    /\ last' = [op |-> "handlePageDragStart"]
    /\ UNCHANGED <<coll, isProcessing, fname, modalVisible, loading, pageGrid, tasks, ctrs>>

\* handlePageDragEnd(e)
HandlePageDragEnd ==
    /\ draggedId' = NULL
    /\ dragStartIndex' = -1
    /\ last' = [op |-> "handlePageDragEnd"]
    /\ UNCHANGED <<coll, isProcessing, fname, modalVisible, loading, pageGrid, tasks, ctrs>>

\* handlePageDrop without `if (draggedIndex === -1 || targetIndex === -1)
\* return`: splice(-1, 1) takes the last page
reorderUnchecked(arr, dragged, targetId) ==
    LET draggedIndex == findIndex(arr, dragged)
        targetIndex == findIndex(arr, targetId)
    IN IF dragged = targetId \/ arr = <<>> THEN arr
       ELSE LET k == spliceStart(Len(arr), draggedIndex)
                e == IF k < Len(arr) THEN k + 1 ELSE Len(arr)
            IN \* the rest with the taken page put at splice's start
               [j \in 1..Len(arr) |->
                   LET rest == [m \in 1..(Len(arr) - 1) |->
                                   IF m < e THEN arr[m] ELSE arr[m + 1]]
                       at == spliceStart(Len(rest), targetIndex)
                   IN IF j <= at THEN rest[j]
                      ELSE IF j = at + 1 THEN arr[e] ELSE rest[j - 1]]

\* state.pages after handlePageDrop(e, targetId) with state.draggedId = dragged
reorder(arr, dragged, targetId) ==
    LET draggedIndex == findIndex(arr, dragged)
        targetIndex == findIndex(arr, targetId)
    IN IF dragged = targetId THEN arr
       ELSE IF draggedIndex = -1 \/ targetIndex = -1 THEN arr
       ELSE spliceInsert(spliceRemove(arr, draggedIndex), targetIndex,
                         arr[draggedIndex + 1])

\* whether handlePageDrop reaches its splice calls and renderPages()
dropMoves(arr, dragged, targetId) ==
    /\ dragged # targetId
    /\ findIndex(arr, dragged) # -1
    /\ findIndex(arr, targetId) # -1

\* a drop that moves the page found at the index recorded at dragstart
HandlePageDropStale(targetId) ==
    LET targetIndex == findIndex(pages, targetId)
        moves == /\ draggedId # targetId
                 /\ dragStartIndex # -1 /\ dragStartIndex < Len(pages)
                 /\ targetIndex # -1
    IN /\ pages' = IF moves
                   THEN spliceInsert(spliceRemove(pages, dragStartIndex),
                                     targetIndex, pages[dragStartIndex + 1])
                   ELSE pages
       /\ IF moves
          THEN /\ pageGrid' = renderPages(pages')
               /\ tasks' = InPlace(tasks, pages')
          ELSE UNCHANGED <<pageGrid, tasks>>
       /\ last' = [op |-> "handlePageDrop", moved |-> moves,
                   stale |-> (dragStartIndex # findIndex(pages, draggedId))]
       /\ UNCHANGED <<heap, selectedIds, drag, isProcessing, fname,
                      modalVisible, loading, ctrs>>

\* a drop whose re-rendering forgets the selection
HandlePageDropDeselect(targetId) ==
    /\ pages' = reorder(pages, draggedId, targetId)
    /\ IF dropMoves(pages, draggedId, targetId)
       THEN /\ pageGrid' = renderPages(pages')
            /\ tasks' = InPlace(tasks, pages')
            /\ selectedIds' = {}
       ELSE UNCHANGED <<pageGrid, tasks, selectedIds>>
    /\ last' = [op |-> "handlePageDrop",
                moved |-> dropMoves(pages, draggedId, targetId),
                stale |-> (dragStartIndex # findIndex(pages, draggedId))]
    /\ UNCHANGED <<heap, drag, isProcessing, fname, modalVisible, loading,
                   ctrs>>

\* handlePageDrop(e, targetId).  A card's id is an id of state.pages, so the
\* browser delivers only such targets; the handler is modelled for every id.
HandlePageDrop(targetId) ==
    /\ pages' = reorder(pages, draggedId, targetId)
    /\ IF dropMoves(pages, draggedId, targetId)
       THEN /\ pageGrid' = renderPages(pages')
            /\ tasks' = InPlace(tasks, pages')
       ELSE UNCHANGED <<pageGrid, tasks>>
    /\ last' = [op |-> "handlePageDrop",
                moved |-> dropMoves(pages, draggedId, targetId),
                stale |-> (dragStartIndex # findIndex(pages, draggedId))]
    /\ UNCHANGED <<heap, selectedIds, drag, isProcessing, fname,
                   modalVisible, loading, ctrs>>

\* ---------------------------------------------------------- splitSelected
\* a copy on which setRotation is called whatever the page's rotation is
copiedAlwaysRotated(h, id) ==
    [pdfBytes |-> h[id].pdfBytes, pageIndex |-> h[id].pageIndex,
     setRotation |-> <<h[id].rotation>>]

\* what copyPages + setRotation + addPage put in an output document: the
\* source bytes and page index copied, and the calls of setRotation on the
\* copy (none when page.rotation is 0)
copied(h, id) ==
    [pdfBytes |-> h[id].pdfBytes, pageIndex |-> h[id].pageIndex,
     setRotation |-> IF h[id].rotation > 0 THEN <<h[id].rotation>> ELSE <<>>]

\* the rotation stored with the pages of the document pdfBytes encodes
storedRotation(pdfBytes) == pdfBytes[5]

\* the rotation of a page of an output document: copyPages keeps the
\* rotation stored in the source, setRotation replaces it
rotationOf(copy) ==
    IF copy.setRotation = <<>> THEN storedRotation(copy.pdfBytes)
    ELSE copy.setRotation[Len(copy.setRotation)]

\* the catch and finally blocks of splitSelected
SplitFailed(s) ==
    /\ loading' = hideLoading(loading)
    /\ isProcessing' = FALSE
    /\ tasks' = [tasks EXCEPT ![s] = Idle]
    /\ heap' = Collect(heap, pages, tasks')
    /\ last' = [op |-> "splitSelected.end", ok |-> FALSE,
                toast |-> <<"error", "Error splitting PDF">>, emitted |-> <<>>]

\* splitSelected without its `if (state.selectedIds.size === 0)` return
SplitSelectedUnchecked ==
    /\ LET selectedPages == filter(pages, selectedIds)
       IN IF Len(selectedPages) = 0
          THEN /\ isProcessing' = FALSE
               /\ loading' = hideLoading(showLoading(<<"Splitting PDF...">>))
               /\ last' = [op |-> "splitSelected.end", ok |-> TRUE,
                           toast |-> <<"success", "Split", 0>>,
                           emitted |-> <<>>]
               /\ UNCHANGED tasks
          ELSE /\ \E s \in Slots : tasks[s] = Idle
               /\ isProcessing' = TRUE
               /\ loading' = updateLoadingProgress(
                      showLoading(<<"Splitting PDF...">>),
                      <<"Creating page", 1, Len(selectedPages)>>,
                      1, Len(selectedPages))
               /\ tasks' = [tasks EXCEPT ![FreeSlot(tasks)] =
                      [kind |-> "split", pc |-> "copy",
                       list |-> selectedPages, i |-> 0,
                       cur |-> selectedPages[1], doc |-> <<>>]]
               /\ last' = [op |-> "splitSelected", started |-> TRUE,
                           toast |-> <<"none">>]
    /\ UNCHANGED <<coll, drag, fname, modalVisible, pageGrid, ctrs>>

\* splitSelected(), up to its first await
SplitSelected ==
    /\ IF Cardinality(selectedIds) = 0
       THEN /\ last' = [op |-> "splitSelected", started |-> FALSE,
                        toast |-> <<"error", "Select pages to split">>]
            /\ UNCHANGED <<isProcessing, loading, tasks>>
       ELSE LET selectedPages == filter(pages, selectedIds)
            IN IF Len(selectedPages) = 0
               THEN /\ isProcessing' = FALSE
                    /\ loading' = hideLoading(showLoading(<<"Splitting PDF...">>))
                    /\ last' = [op |-> "splitSelected.end", ok |-> TRUE,
                                toast |-> <<"success", "Split", 0>>,
                                emitted |-> <<>>]
                    /\ UNCHANGED tasks
               ELSE /\ \E s \in Slots : tasks[s] = Idle
                    /\ isProcessing' = TRUE
                    /\ loading' = updateLoadingProgress(
                           showLoading(<<"Splitting PDF...">>),
                           <<"Creating page", 1, Len(selectedPages)>>,
                           1, Len(selectedPages))
                    /\ tasks' = [tasks EXCEPT ![FreeSlot(tasks)] =
                           [kind |-> "split", pc |-> "copy",
                            list |-> selectedPages, i |-> 0,
                            cur |-> selectedPages[1], doc |-> <<>>]]
                    /\ last' = [op |-> "splitSelected", started |-> TRUE,
                                toast |-> <<"none">>]
    /\ UNCHANGED <<coll, drag, fname, modalVisible, pageGrid, ctrs>>

\* PDFDocument.load, PDFDocument.create and copyPages resolve (ok) or one
\* throws; then setRotation, addPage, and the call of save
SplitCopy(s, ok) ==
    /\ tasks[s].kind = "split" /\ tasks[s].pc = "copy"
    /\ IF ~ok
       THEN SplitFailed(s)
       ELSE /\ tasks' = [tasks EXCEPT ![s] =
                   [tasks[s] EXCEPT !.pc = "save",
                                    !.doc = <<copied(heap, tasks[s].cur)>>]]
            /\ last' = [op |-> "splitSelected.copy"]
            /\ UNCHANGED <<heap, isProcessing, loading>>
    /\ UNCHANGED <<pages, selectedIds, drag, fname, modalVisible,
                   pageGrid, ctrs>>

\* a split that numbers its files from zero
SplitSaveZeroBased(s, ok) ==
    /\ tasks[s].kind = "split" /\ tasks[s].pc = "save"
    /\ IF ~ok
       THEN SplitFailed(s)
       ELSE /\ tasks' = [tasks EXCEPT ![s] = [tasks[s] EXCEPT !.pc = "delay"]]
            /\ last' = [op |-> "splitSelected.save",
                        emitted |-> <<[name |-> <<"page_", tasks[s].i, ".pdf">>,
                                       doc |-> tasks[s].doc]>>]
            /\ UNCHANGED <<heap, isProcessing, loading>>
    /\ UNCHANGED <<pages, selectedIds, drag, fname, modalVisible,
                   pageGrid, ctrs>>

\* save resolves (ok) or throws; then downloadBlob and the 300 ms timer
SplitSave(s, ok) ==
    /\ tasks[s].kind = "split" /\ tasks[s].pc = "save"
    /\ IF ~ok
       THEN SplitFailed(s)
       ELSE /\ tasks' = [tasks EXCEPT ![s] = [tasks[s] EXCEPT !.pc = "delay"]]
            /\ last' = [op |-> "splitSelected.save",
                        emitted |-> <<[name |-> <<"page_", tasks[s].i + 1, ".pdf">>,
                                       doc |-> tasks[s].doc]>>]
            /\ UNCHANGED <<heap, isProcessing, loading>>
    /\ UNCHANGED <<pages, selectedIds, drag, fname, modalVisible,
                   pageGrid, ctrs>>

\* a split that clears the selection once its last file is downloaded
SplitDelayDeselect(s) ==
    /\ tasks[s].kind = "split" /\ tasks[s].pc = "delay"
    /\ LET t == tasks[s]
       IN IF t.i + 1 < Len(t.list)
          THEN /\ tasks' = [tasks EXCEPT ![s] =
                      [t EXCEPT !.i = @ + 1, !.cur = t.list[t.i + 2],
                                !.pc = "copy", !.doc = <<>>]]
               /\ loading' = updateLoadingProgress(loading,
                      <<"Creating page", t.i + 2, Len(t.list)>>,
                      t.i + 2, Len(t.list))
               /\ last' = [op |-> "splitSelected.next"]
               /\ UNCHANGED <<heap, isProcessing, selectedIds>>
          ELSE /\ tasks' = [tasks EXCEPT ![s] = Idle]
               /\ heap' = Collect(heap, pages, tasks')
               /\ selectedIds' = {}
               /\ loading' = hideLoading(loading)
               /\ isProcessing' = FALSE
               /\ last' = [op |-> "splitSelected.end", ok |-> TRUE,
                           toast |-> <<"success", "Split", Len(t.list)>>,
                           emitted |-> <<>>]
    /\ UNCHANGED <<pages, drag, fname, modalVisible, pageGrid, ctrs>>

\* the timer fires: the next page, or the end of the try block
SplitDelay(s) ==
    /\ tasks[s].kind = "split" /\ tasks[s].pc = "delay"
    /\ LET t == tasks[s]
       IN IF t.i + 1 < Len(t.list)
          THEN /\ tasks' = [tasks EXCEPT ![s] =
                      [t EXCEPT !.i = @ + 1, !.cur = t.list[t.i + 2],
                                !.pc = "copy", !.doc = <<>>]]
               /\ loading' = updateLoadingProgress(loading,
                      <<"Creating page", t.i + 2, Len(t.list)>>,
                      t.i + 2, Len(t.list))
               /\ last' = [op |-> "splitSelected.next"]
               /\ UNCHANGED <<heap, isProcessing>>
          ELSE /\ tasks' = [tasks EXCEPT ![s] = Idle]
               /\ heap' = Collect(heap, pages, tasks')
               /\ loading' = hideLoading(loading)
               /\ isProcessing' = FALSE
               /\ last' = [op |-> "splitSelected.end", ok |-> TRUE,
                           toast |-> <<"success", "Split", Len(t.list)>>,
                           emitted |-> <<>>]
    /\ UNCHANGED <<pages, selectedIds, drag, fname, modalVisible,
                   pageGrid, ctrs>>

\* ----------------------------------------------------------- filename rules
\* file names are sequences of one-character strings
invalidChars == {"\\", "/", ":", "*", "?", "\"", "<", ">", "|"}
whitespace == {" "}
merged == <<"m", "e", "r", "g", "e", "d">>

RECURSIVE trimStart(_)
trimStart(str) ==
    IF str # <<>> /\ Head(str) \in whitespace THEN trimStart(Tail(str)) ELSE str

RECURSIVE trimEnd(_)
trimEnd(str) ==
    IF str # <<>> /\ str[Len(str)] \in whitespace
    THEN trimEnd(SubSeq(str, 1, Len(str) - 1)) ELSE str

\* String.prototype.trim
trim(str) == trimEnd(trimStart(str))

\* a validation that looks for invalid characters before the length
filenameErrorCharsFirst(input) ==
    LET value == trim(input)
    IN IF Len(value) = 0 THEN "Filename cannot be empty"
       ELSE IF \E k \in 1..Len(value) : value[k] \in invalidChars
       THEN "Invalid characters"
       ELSE IF Len(value) > MaxFilenameLength
       THEN "Filename too long (max 100 characters)"
       ELSE ""

\* the error validateFilenameInput finds in the input's value ("" if none)
filenameError(input) ==
    LET value == trim(input)
    IN IF Len(value) = 0 THEN "Filename cannot be empty"
       ELSE IF Len(value) > MaxFilenameLength
       THEN "Filename too long (max 100 characters)"
       ELSE IF \E k \in 1..Len(value) : value[k] \in invalidChars
       THEN "Invalid characters"
       ELSE ""

\* state.currentFilename after validateFilenameInput() on the input's value
validated(input, current) ==
    IF filenameError(input) = "" THEN trim(input) ELSE current

\* what the user may leave in the filename input: names around the three
\* rules and their limits
Repeat(c, n) == [k \in 1..n |-> c]

TypedNames ==
    {<<>>, <<" ">>, <<"a">>, <<" ", "a", " ">>, <<"a", "/">>,
     Repeat("a", MaxFilenameLength),
     <<" ">> \o Repeat("a", MaxFilenameLength) \o <<" ">>,
     Repeat("a", MaxFilenameLength - 1) \o <<"|">>,
     Repeat("a", MaxFilenameLength + 1),
     Repeat("a", MaxFilenameLength) \o <<"?">>}
    \cup {<<c>> : c \in invalidChars}

\* the input event of the filename input, its value being `value`:
\* validateFilenameInput()
InputFilename(value) ==
    /\ modalVisible
    /\ filenameInput' = value
    /\ confirmDisabled' = (filenameError(value) # "")
    /\ currentFilename' = validated(value, currentFilename)
    /\ last' = [op |-> "validateFilenameInput",
                error |-> filenameError(value)]
    /\ UNCHANGED <<coll, drag, isProcessing, filenameTemplate, modalVisible,
                   loading, pageGrid, tasks, ctrs>>

\* ------------------------------------------------------ export preview modal
\* pages.filter(p => p.pdfBytes === pdfBytes).length
pagesOfSource(list, h, pdfBytes) ==
    Len(SelectSeq(list, LAMBDA id : h[id].pdfBytes = pdfBytes))

RECURSIVE sumOfShares(_, _, _, _)
\* the second forEach of estimateFileSize: for every source buffer of the
\* pages to export, its length * pagesFromSource / totalPagesInSource
sumOfShares(sources, list, arr, h) ==
    IF sources = {} THEN 0
    ELSE LET pdfBytes == CHOOSE b \in sources : TRUE
             pagesFromSource == pagesOfSource(list, h, pdfBytes)
             totalPagesInSource == pagesOfSource(arr, h, pdfBytes)
         IN (byteLength(pdfBytes) * pagesFromSource) \div totalPagesInSource
            + sumOfShares(sources \ {pdfBytes}, list, arr, h)

\* Math.round(n / d), n >= 0
round(n, d) == (2 * n + d) \div (2 * d)

\* the text estimateFileSize returns for estimatedBytes
formatSize(estimatedBytes) ==
    IF estimatedBytes < 1024 THEN <<round(estimatedBytes, 1), " B">>
    ELSE IF estimatedBytes < 1024 * 1024
    THEN <<round(estimatedBytes, 1024), " KB">>
    ELSE LET tenths == round(10 * estimatedBytes, 1024 * 1024)
         IN <<tenths \div 10, ".", tenths % 10, " MB">>

\* estimateFileSize(list), state.pages being arr; a page whose buffer has
\* no page in state.pages makes the share a division by zero
estimateFileSize(list, arr, h) ==
    formatSize((sumOfShares({h[list[k]].pdfBytes : k \in 1..Len(list)},
                            list, arr, h) * 85) \div 100)

\* an export that takes every page whatever is selected
pagesToExportAll(arr, sel) == arr

\* the pages an export takes: the selected ones, or all
pagesToExport(arr, sel) ==
    IF Cardinality(sel) > 0 THEN filter(arr, sel) ELSE arr

\* the decimal digits of a template literal's number
Digit == <<"0", "1", "2", "3", "4", "5", "6", "7", "8", "9">>

RECURSIVE decimal(_)
decimal(n) ==
    IF n < 10 THEN <<Digit[n + 1]>>
    ELSE decimal(n \div 10) \o <<Digit[(n % 10) + 1]>>

\* what new Date().toISOString().slice(0, 10) may return
Dates == {<<"2", "0", "2", "4", "-", "0", "1", "-", "3", "1">>,
          <<"2", "0", "2", "4", "-", "0", "2", "-", "0", "1">>}

Templates == {"custom", "merged", "pages", "date"}

\* a 'custom' template without its `|| 'merged'`
templateFilenameNoDefault(template, input, n, date) ==
    CASE template = "merged" -> merged
      [] template = "pages" ->
             <<"p", "a", "g", "e", "s", "_", "1", "-">> \o decimal(n)
      [] template = "date" ->
             <<"d", "o", "c", "u", "m", "e", "n", "t", "_">> \o date
      [] OTHER -> input

\* the filename updateFilenameFromTemplate() derives for n pages to export
templateFilename(template, input, n, date) ==
    CASE template = "merged" -> merged
      [] template = "pages" ->
             <<"p", "a", "g", "e", "s", "_", "1", "-">> \o decimal(n)
      [] template = "date" ->
             <<"d", "o", "c", "u", "m", "e", "n", "t", "_">> \o date
      [] OTHER -> IF input = <<>> THEN merged ELSE input

\* updateFilenameFromTemplate() and the validateFilenameInput() it ends with
updateFilenameFromTemplate(template, date) ==
    LET filename == templateFilename(template, filenameInput,
                        Len(pagesToExport(pages, selectedIds)), date)
    IN /\ filenameInput' = filename
       /\ currentFilename' = validated(filename, filename)
       /\ confirmDisabled' = (filenameError(filename) # "")

\* selectFilenameTemplate(template), from a template button of the modal
SelectFilenameTemplate(template) ==
    /\ modalVisible
    /\ filenameTemplate' = template
    /\ \E date \in Dates : updateFilenameFromTemplate(template, date)
    /\ last' = [op |-> "selectFilenameTemplate",
                n |-> Len(pagesToExport(pages, selectedIds))]
    /\ UNCHANGED <<coll, drag, isProcessing, modalVisible, loading, pageGrid,
                   tasks, ctrs>>

\* showExportPreview without its `if (state.pages.length === 0)` return
ShowExportPreviewUnchecked ==
    /\ \E date \in Dates : updateFilenameFromTemplate(filenameTemplate, date)
    /\ modalVisible' = TRUE
    /\ last' = [op |-> "showExportPreview", shown |-> TRUE,
                toast |-> <<"none">>,
                previewStrip |-> pagesToExport(pages, selectedIds),
                statPageCount |-> Len(pagesToExport(pages, selectedIds)),
                statFileSize |->
                    estimateFileSize(pagesToExport(pages, selectedIds),
                                     pages, heap)]
    /\ UNCHANGED <<coll, drag, isProcessing, filenameTemplate, loading,
                   pageGrid, tasks, ctrs>>

\* showExportPreview(): the preview strip, the page count and the size
\* estimate are kept in the history record
ShowExportPreview ==
    /\ IF Len(pages) = 0
       THEN /\ last' = [op |-> "showExportPreview", shown |-> FALSE,
                        toast |-> <<"error", "No pages to export">>]
            /\ UNCHANGED <<fname, modalVisible>>
       ELSE /\ \E date \in Dates :
                   updateFilenameFromTemplate(filenameTemplate, date)
            /\ modalVisible' = TRUE
            /\ last' = [op |-> "showExportPreview", shown |-> TRUE,
                        toast |-> <<"none">>,
                        previewStrip |-> pagesToExport(pages, selectedIds),
                        statPageCount |->
                            Len(pagesToExport(pages, selectedIds)),
                        statFileSize |->
                            estimateFileSize(pagesToExport(pages, selectedIds),
                                             pages, heap)]
            /\ UNCHANGED filenameTemplate
    /\ UNCHANGED <<coll, drag, isProcessing, loading, pageGrid, tasks,
                   ctrs>>

\* hideExportPreview()
HideExportPreview ==
    /\ modalVisible' = FALSE
    /\ last' = [op |-> "hideExportPreview"]
    /\ UNCHANGED <<coll, drag, isProcessing, fname, loading, pageGrid,
                   tasks, ctrs>>

\* --------------------------------------------------------- mergeAndExport
\* a catch block of mergeAndExport that forgets hideLoading()
MergeFailedOverlayLeft(s) ==
    /\ isProcessing' = FALSE
    /\ tasks' = [tasks EXCEPT ![s] = Idle]
    /\ heap' = Collect(heap, pages, tasks')
    /\ last' = [op |-> "mergeAndExport.end", ok |-> FALSE,
                toast |-> <<"error", "Error merging PDF">>, emitted |-> <<>>]
    /\ UNCHANGED loading

\* the catch and finally blocks of mergeAndExport
MergeFailed(s) ==
    /\ loading' = hideLoading(loading)
    /\ isProcessing' = FALSE
    /\ tasks' = [tasks EXCEPT ![s] = Idle]
    /\ heap' = Collect(heap, pages, tasks')
    /\ last' = [op |-> "mergeAndExport.end", ok |-> FALSE,
                toast |-> <<"error", "Error merging PDF">>, emitted |-> <<>>]

\* the source pages (buffer and page index) the page objects of list hold
sourcePages(h, list) ==
    [k \in 1..Len(list) |-> <<h[list[k]].pdfBytes, h[list[k]].pageIndex>>]

\* confirmAndExport without its `if (!validateFilenameInput()) return`
ConfirmAndExportUnvalidated ==
    /\ modalVisible
    /\ confirmDisabled' = (filenameError(filenameInput) # "")
    /\ currentFilename' = validated(filenameInput, currentFilename)
    /\ UNCHANGED <<filenameTemplate, filenameInput>>
    /\ modalVisible' = FALSE
    /\ IF Len(pages) = 0
       THEN /\ last' = [op |-> "confirmAndExport", started |-> FALSE,
                        toast |-> <<"error", "No pages to merge">>]
            /\ UNCHANGED <<isProcessing, loading, tasks>>
       ELSE /\ \E s \in Slots : tasks[s] = Idle
            /\ isProcessing' = TRUE
            /\ loading' = showLoading(<<"Merging PDF...">>)
            /\ tasks' = [tasks EXCEPT ![FreeSlot(tasks)] =
                   [kind |-> "merge", pc |-> "create", list |-> <<>>,
                    live |-> FALSE, i |-> 0, cur |-> NULL, out |-> <<>>,
                    asked |-> sourcePages(heap,
                                  pagesToExport(pages, selectedIds))]]
            /\ last' = [op |-> "confirmAndExport", started |-> TRUE,
                        toast |-> <<"none">>]
    /\ UNCHANGED <<coll, drag, pageGrid, ctrs>>

\* confirmAndExport(), from the confirm button of the export modal, and
\* mergeAndExport() up to its first await; `asked` is history: the source
\* pages of the pages to export in the state mergeAndExport is called in
ConfirmAndExport ==
    /\ modalVisible
    /\ confirmDisabled' = (filenameError(filenameInput) # "")
    /\ currentFilename' = validated(filenameInput, currentFilename)
    /\ UNCHANGED <<filenameTemplate, filenameInput>>
    /\ IF filenameError(filenameInput) # ""
       THEN /\ last' = [op |-> "confirmAndExport", started |-> FALSE,
                        toast |-> <<"none">>]
            /\ UNCHANGED <<modalVisible, isProcessing, loading, tasks>>
       ELSE /\ modalVisible' = FALSE
            /\ IF Len(pages) = 0
               THEN /\ last' = [op |-> "confirmAndExport", started |-> FALSE,
                                toast |-> <<"error", "No pages to merge">>]
                    /\ UNCHANGED <<isProcessing, loading, tasks>>
               ELSE /\ \E s \in Slots : tasks[s] = Idle
                    /\ isProcessing' = TRUE
                    /\ loading' = showLoading(<<"Merging PDF...">>)
                    /\ tasks' = [tasks EXCEPT ![FreeSlot(tasks)] =
                           [kind |-> "merge", pc |-> "create", list |-> <<>>,
                            live |-> FALSE, i |-> 0, cur |-> NULL,
                            out |-> <<>>,
                            asked |-> sourcePages(heap,
                                          pagesToExport(pages, selectedIds))]]
                    /\ last' = [op |-> "confirmAndExport", started |-> TRUE,
                                toast |-> <<"none">>]
    /\ UNCHANGED <<coll, drag, pageGrid, ctrs>>

\* PDFDocument.create resolves (ok) or throws; then pagesToMerge is taken
\* and the loop runs to its first await (or, with no page, to save)
MergeCreate(s, ok) ==
    /\ tasks[s].kind = "merge" /\ tasks[s].pc = "create"
    /\ IF ~ok
       THEN MergeFailed(s)
       ELSE LET pagesToMerge == pagesToExport(pages, selectedIds)
                t == [tasks[s] EXCEPT !.list = pagesToMerge,
                                      !.live = (Cardinality(selectedIds) = 0)]
            IN /\ IF Len(pagesToMerge) = 0
                  THEN /\ tasks' = [tasks EXCEPT ![s] = [t EXCEPT !.pc = "save"]]
                       /\ UNCHANGED loading
                  ELSE /\ tasks' = [tasks EXCEPT ![s] =
                              [t EXCEPT !.pc = "copy", !.cur = pagesToMerge[1]]]
                       /\ loading' = updateLoadingProgress(loading,
                              <<"Adding page", 1, Len(pagesToMerge)>>,
                              1, Len(pagesToMerge))
               /\ last' = [op |-> "mergeAndExport.create"]
               /\ UNCHANGED <<heap, isProcessing>>
    /\ UNCHANGED <<pages, selectedIds, drag, fname, modalVisible,
                   pageGrid, ctrs>>

\* PDFDocument.load and copyPages resolve (ok) or one throws; then
\* setRotation, addPage and the next turn of the loop
MergeCopy(s, ok) ==
    /\ tasks[s].kind = "merge" /\ tasks[s].pc = "copy"
    /\ IF ~ok
       THEN MergeFailed(s)
       ELSE LET t == [tasks[s] EXCEPT !.out = Append(@, copied(heap, tasks[s].cur)),
                                      !.i = @ + 1]
            IN /\ IF t.i < Len(t.list)
                  THEN /\ tasks' = [tasks EXCEPT ![s] =
                              [t EXCEPT !.cur = t.list[t.i + 1]]]
                       /\ loading' = updateLoadingProgress(loading,
                              <<"Adding page", t.i + 1, Len(t.list)>>,
                              t.i + 1, Len(t.list))
                  ELSE /\ tasks' = [tasks EXCEPT ![s] =
                              [t EXCEPT !.pc = "save", !.cur = NULL]]
                       /\ UNCHANGED loading
               /\ heap' = Collect(heap, pages, tasks')
               /\ last' = [op |-> "mergeAndExport.copy"]
               /\ UNCHANGED isProcessing
    /\ UNCHANGED <<pages, selectedIds, drag, fname, modalVisible,
                   pageGrid, ctrs>>

\* a merge that downloads its document twice
MergeSaveTwice(s, ok) ==
    /\ tasks[s].kind = "merge" /\ tasks[s].pc = "save"
    /\ IF ~ok
       THEN MergeFailed(s)
       ELSE /\ tasks' = [tasks EXCEPT ![s] = Idle]
            /\ heap' = Collect(heap, pages, tasks')
            /\ loading' = hideLoading(loading)
            /\ isProcessing' = FALSE
            /\ last' = [op |-> "mergeAndExport.end", ok |-> TRUE,
                        toast |-> <<"success", "Exported", Len(tasks[s].list)>>,
                        emitted |-> <<[name |-> currentFilename \o <<".pdf">>,
                                       doc |-> tasks[s].out],
                                      [name |-> currentFilename \o <<".pdf">>,
                                       doc |-> tasks[s].out]>>]
    /\ UNCHANGED <<pages, selectedIds, drag, fname, modalVisible,
                   pageGrid, ctrs>>

\* save resolves (ok) or throws; then downloadBlob under
\* state.currentFilename + ".pdf" and the end of the try block
MergeSave(s, ok) ==
    /\ tasks[s].kind = "merge" /\ tasks[s].pc = "save"
    /\ IF ~ok
       THEN MergeFailed(s)
       ELSE /\ tasks' = [tasks EXCEPT ![s] = Idle]
            /\ heap' = Collect(heap, pages, tasks')
            /\ loading' = hideLoading(loading)
            /\ isProcessing' = FALSE
            /\ last' = [op |-> "mergeAndExport.end", ok |-> TRUE,
                        toast |-> <<"success", "Exported", Len(tasks[s].list)>>,
                        emitted |-> <<[name |-> currentFilename \o <<".pdf">>,
                                       doc |-> tasks[s].out]>>]
    /\ UNCHANGED <<pages, selectedIds, drag, fname, modalVisible,
                   pageGrid, ctrs>>

\* a continuation of the async handler suspended in slot s
Resume(s) ==
    \/ \E ok \in BOOLEAN : IngestCount(s, ok)
    \/ \E ok \in BOOLEAN : IngestOpen(s, ok)
    \/ \E ok \in BOOLEAN : IngestThumb(s, ok)
    \/ \E ok \in BOOLEAN : SplitCopy(s, ok)
    \/ \E ok \in BOOLEAN : SplitSave(s, ok)
    \/ SplitDelay(s)
    \/ \E ok \in BOOLEAN : MergeCreate(s, ok)
    \/ \E ok \in BOOLEAN : MergeCopy(s, ok)
    \/ \E ok \in BOOLEAN : MergeSave(s, ok)

\* what a drop or the file picker may deliver: PDF files, other files, none
FileLists == BatchesOf(Files \cup OtherFiles) \cup {<<>>}

\* every handler and continuation
Next ==
    \/ \E files \in BatchesOfFiles : ProcessFiles(files)
    \/ \E s \in Slots : Resume(s)
    \/ \E id \in PageIds :
          Turns(heap, DOMAIN heap) < MaxTurns /\ RotatePage(id)
    \/ \E id \in PageIds : TogglePageSelection(id)
    \/ SelectAll
    \/ ClearAll
    \/ DeleteSelected
    \/ \E id \in PageIds : HandlePageDragStart(id)
    \/ HandlePageDragEnd
    \/ \E id \in PageIds : HandlePageDrop(id)
    \/ SplitSelected
    \/ ShowExportPreview
    \/ \E template \in Templates : SelectFilenameTemplate(template)
    \/ HideExportPreview
    \/ ConfirmAndExport
    \/ \E dropped \in FileLists : HandleFileDrop(dropped)
    \/ \E chosen \in FileLists : HandleFileSelect(chosen)
    \/ \E value \in TypedNames : InputFilename(value)

Spec == Init /\ [][Next]_vars

\* the long-running operations alone: uploads, selection, split and merge
NextOps ==
    \/ \E files \in BatchesOfFiles :
          /\ \/ isProcessing
             \/ /\ batches < MaxOpsBatches
                /\ (nextId - 1) + SumPc(files, Len(files)) <= MaxOpsIds
          /\ ProcessFiles(files)
    \/ \E s \in Slots : Resume(s)
    \/ \E id \in PageIds : TogglePageSelection(id)
    \/ SplitSelected
    \/ ShowExportPreview
    \/ ConfirmAndExport

SpecOps == Init /\ [][NextOps]_vars

\* every continuation runs once the call it awaits has settled
FairOps == SpecOps /\ \A s \in Slots : WF_vars(Resume(s))

\* editing the collection: uploads, selection, rotation, delete, reorder
NextEdit ==
    \/ \E files \in BatchesOfFiles : ProcessFiles(files)
    \/ \E s \in Slots, ok \in BOOLEAN : IngestCount(s, ok)
    \/ \E s \in Slots, ok \in BOOLEAN : IngestOpen(s, ok)
    \/ \E s \in Slots, ok \in BOOLEAN : IngestThumb(s, ok)
    \/ \E id \in PageIds :
          Turns(heap, DOMAIN heap) < MaxTurns /\ RotatePage(id)
    \/ \E id \in PageIds : TogglePageSelection(id)
    \/ SelectAll
    \/ ClearAll
    \/ DeleteSelected
    \/ \E id \in PageIds : HandlePageDragStart(id)
    \/ HandlePageDragEnd
    \/ \E id \in PageIds : HandlePageDrop(id)

SpecEdit == Init /\ [][NextEdit]_vars

\* uploads alone, nothing interleaved
NextIngest ==
    \/ \E files \in BatchesOfFiles : ProcessFiles(files)
    \/ \E s \in Slots, ok \in BOOLEAN : IngestCount(s, ok)
    \/ \E s \in Slots, ok \in BOOLEAN : IngestOpen(s, ok)
    \/ \E s \in Slots, ok \in BOOLEAN : IngestThumb(s, ok)

SpecIngest == Init /\ [][NextIngest]_vars

\* uploads and rotation, every page turned as often as the user likes
NextRotate ==
    \/ \E files \in BatchesOfFiles : ProcessFiles(files)
    \/ \E s \in Slots, ok \in BOOLEAN : IngestCount(s, ok)
    \/ \E s \in Slots, ok \in BOOLEAN : IngestOpen(s, ok)
    \/ \E s \in Slots, ok \in BOOLEAN : IngestThumb(s, ok)
    \/ \E id \in PageIds : RotatePage(id)
    \/ \E id \in PageIds : TogglePageSelection(id)
    \/ DeleteSelected

SpecRotate == Init /\ [][NextRotate]_vars

\* the suspended handlers
InFlight == {s \in Slots : tasks[s] # Idle}

\* every handler but the filename templates, the user starting a split or
\* a merge only when no operation is in flight
NextSeq ==
    \/ \E files \in BatchesOfFiles :
          /\ \/ isProcessing
             \/ /\ batches < MaxOpsBatches
                /\ (nextId - 1) + SumPc(files, Len(files)) <= MaxOpsIds
          /\ ProcessFiles(files)
    \/ \E s \in Slots : Resume(s)
    \/ \E id \in PageIds :
          Turns(heap, DOMAIN heap) < MaxTurns /\ RotatePage(id)
    \/ \E id \in PageIds : TogglePageSelection(id)
    \/ SelectAll
    \/ ClearAll
    \/ DeleteSelected
    \/ \E id \in PageIds : HandlePageDragStart(id)
    \/ HandlePageDragEnd
    \/ \E id \in PageIds : HandlePageDrop(id)
    \/ InFlight = {} /\ SplitSelected
    \/ ShowExportPreview
    \/ HideExportPreview
    \/ InFlight = {} /\ ConfirmAndExport

SpecSeq == Init /\ [][NextSeq]_vars

\* planning an export: one small upload, selection, reorder, the preview
\* modal and its filename templates, merge
NextPlan ==
    \/ \E files \in BatchesOfFiles :
          /\ \/ isProcessing
             \/ /\ batches < MaxOpsBatches
                /\ (nextId - 1) + SumPc(files, Len(files)) <= MaxOpsIds
          /\ ProcessFiles(files)
    \/ \E s \in Slots, ok \in BOOLEAN : IngestCount(s, ok)
    \/ \E s \in Slots, ok \in BOOLEAN : IngestOpen(s, ok)
    \/ \E s \in Slots, ok \in BOOLEAN : IngestThumb(s, ok)
    \/ \E s \in Slots, ok \in BOOLEAN : MergeCreate(s, ok)
    \/ \E s \in Slots, ok \in BOOLEAN : MergeCopy(s, ok)
    \/ \E s \in Slots, ok \in BOOLEAN : MergeSave(s, ok)
    \/ \E id \in PageIds : TogglePageSelection(id)
    \/ \E id \in PageIds : HandlePageDragStart(id)
    \/ \E id \in PageIds : HandlePageDrop(id)
    \/ ShowExportPreview
    \/ \E template \in Templates : SelectFilenameTemplate(template)
    \/ InFlight = {} /\ ConfirmAndExport

SpecPlan == Init /\ [][NextPlan]_vars

\* merge with nothing interleaved: one upload, selection, reorder, the
\* preview modal, merge; the user acts when nothing is in flight
NextMerge ==
    \/ \E files \in BatchesOfFiles :
          (isProcessing \/ batches < MaxOpsBatches) /\ ProcessFiles(files)
    \/ \E s \in Slots, ok \in BOOLEAN : IngestCount(s, ok)
    \/ \E s \in Slots, ok \in BOOLEAN : IngestOpen(s, ok)
    \/ \E s \in Slots, ok \in BOOLEAN : IngestThumb(s, ok)
    \/ \E s \in Slots, ok \in BOOLEAN : MergeCreate(s, ok)
    \/ \E s \in Slots, ok \in BOOLEAN : MergeCopy(s, ok)
    \/ \E s \in Slots, ok \in BOOLEAN : MergeSave(s, ok)
    \/ \E id \in PageIds : InFlight = {} /\ TogglePageSelection(id)
    \/ \E id \in PageIds : InFlight = {} /\ HandlePageDragStart(id)
    \/ \E id \in PageIds : InFlight = {} /\ HandlePageDrop(id)
    \/ InFlight = {} /\ ShowExportPreview
    \/ InFlight = {} /\ ConfirmAndExport

SpecMerge == Init /\ [][NextMerge]_vars

\* rotation and export: one upload, selection, rotation, merge and split;
\* the user acts when nothing is in flight
NextRender ==
    \/ \E files \in BatchesOfFiles :
          (isProcessing \/ batches < MaxOpsBatches) /\ ProcessFiles(files)
    \/ \E s \in Slots : Resume(s)
    \/ \E id \in PageIds : InFlight = {} /\ TogglePageSelection(id)
    \/ \E id \in PageIds : InFlight = {} /\ RotatePage(id)
    \/ InFlight = {} /\ ShowExportPreview
    \/ InFlight = {} /\ ConfirmAndExport
    \/ InFlight = {} /\ SplitSelected

SpecRender == Init /\ [][NextRender]_vars

\* split with the user acting while it is in flight: one small upload,
\* selection, reorder, delete, split
NextSplit ==
    \/ \E files \in BatchesOfFiles :
          /\ \/ isProcessing
             \/ /\ batches < MaxOpsBatches
                /\ (nextId - 1) + SumPc(files, Len(files)) <= MaxOpsIds
          /\ ProcessFiles(files)
    \/ \E s \in Slots, ok \in BOOLEAN : IngestCount(s, ok)
    \/ \E s \in Slots, ok \in BOOLEAN : IngestOpen(s, ok)
    \/ \E s \in Slots, ok \in BOOLEAN : IngestThumb(s, ok)
    \/ \E s \in Slots, ok \in BOOLEAN : SplitCopy(s, ok)
    \/ \E s \in Slots, ok \in BOOLEAN : SplitSave(s, ok)
    \/ \E s \in Slots : SplitDelay(s)
    \/ \E id \in PageIds : TogglePageSelection(id)
    \/ \E id \in PageIds : HandlePageDragStart(id)
    \/ \E id \in PageIds : HandlePageDrop(id)
    \/ DeleteSelected
    \/ InFlight = {} /\ SplitSelected

SpecSplit == Init /\ [][NextSplit]_vars

\* the two upload entry points with PDF files and other files
NextUpload ==
    \/ \E dropped \in FileLists : HandleFileDrop(dropped)
    \/ \E chosen \in FileLists : HandleFileSelect(chosen)
    \/ \E s \in Slots, ok \in BOOLEAN : IngestCount(s, ok)
    \/ \E s \in Slots, ok \in BOOLEAN : IngestOpen(s, ok)
    \/ \E s \in Slots, ok \in BOOLEAN : IngestThumb(s, ok)

SpecUpload == Init /\ [][NextUpload]_vars

\* the export dialog: one small upload, selection, the preview modal, the
\* filename input and its templates, merge
NextName ==
    \/ \E files \in BatchesOfFiles :
          /\ \/ isProcessing
             \/ /\ batches < MaxOpsBatches
                /\ (nextId - 1) + SumPc(files, Len(files)) <= MaxOpsIds
          /\ ProcessFiles(files)
    \/ \E s \in Slots, ok \in BOOLEAN : IngestCount(s, ok)
    \/ \E s \in Slots, ok \in BOOLEAN : IngestOpen(s, ok)
    \/ \E s \in Slots, ok \in BOOLEAN : IngestThumb(s, ok)
    \/ \E s \in Slots, ok \in BOOLEAN : MergeCreate(s, ok)
    \/ \E s \in Slots, ok \in BOOLEAN : MergeCopy(s, ok)
    \/ \E s \in Slots, ok \in BOOLEAN : MergeSave(s, ok)
    \/ \E id \in PageIds : InFlight = {} /\ TogglePageSelection(id)
    \/ ShowExportPreview
    \/ \E value \in TypedNames : InputFilename(value)
    \/ \E template \in Templates : SelectFilenameTemplate(template)
    \/ HideExportPreview
    \/ InFlight = {} /\ ConfirmAndExport

SpecName == Init /\ [][NextName]_vars

\* the size estimate: one upload of documents of several lengths,
\* selection, delete, the preview modal
NextSize ==
    \/ \E files \in BatchesOf(SizedFiles) :
          (isProcessing \/ batches < MaxOpsBatches) /\ ProcessFiles(files)
    \/ \E s \in Slots, ok \in BOOLEAN : IngestCount(s, ok)
    \/ \E s \in Slots, ok \in BOOLEAN : IngestOpen(s, ok)
    \/ \E s \in Slots, ok \in BOOLEAN : IngestThumb(s, ok)
    \/ \E id \in PageIds : InFlight = {} /\ TogglePageSelection(id)
    \/ InFlight = {} /\ DeleteSelected
    \/ InFlight = {} /\ ShowExportPreview

SpecSize == Init /\ [][NextSize]_vars

\* rotation on export: one small upload of documents with a stored
\* rotation, rotation, the preview modal, merge; the user acts when
\* nothing is in flight
NextTurn ==
    \/ \E files \in BatchesOf(TurnedFiles) :
          /\ \/ isProcessing
             \/ /\ batches < MaxOpsBatches
                /\ (nextId - 1) + SumPc(files, Len(files)) <= MaxOpsIds
          /\ ProcessFiles(files)
    \/ \E s \in Slots, ok \in BOOLEAN : IngestCount(s, ok)
    \/ \E s \in Slots, ok \in BOOLEAN : IngestOpen(s, ok)
    \/ \E s \in Slots, ok \in BOOLEAN : IngestThumb(s, ok)
    \/ \E s \in Slots, ok \in BOOLEAN : MergeCreate(s, ok)
    \/ \E s \in Slots, ok \in BOOLEAN : MergeCopy(s, ok)
    \/ \E s \in Slots, ok \in BOOLEAN : MergeSave(s, ok)
    \/ \E id \in PageIds : InFlight = {} /\ RotatePage(id)
    \/ InFlight = {} /\ ShowExportPreview
    \/ InFlight = {} /\ ConfirmAndExport

SpecTurn == Init /\ [][NextTurn]_vars

\* ================================================================ claims
EndOps == {"processFiles.end", "splitSelected.end", "mergeAndExport.end"}

\* C1: in every reachable state at most one long-running operation
\* (processFiles, mergeAndExport, splitSelected) is in flight.  The code
\* checks isProcessing in processFiles only: splitSelected and
\* mergeAndExport set the flag without testing it.
C1_AtMostOneInFlight == Cardinality(InFlight) <= 1

\* C2: every started ingestion, merge or split eventually ends, and the step
\* that ends it leaves isProcessing = false and the loading overlay hidden,
\* whether it succeeds or an external call throws.
C2_GuardReleased ==
    /\ [][\A s \in Slots :
             (tasks[s] # Idle /\ tasks'[s] = Idle) =>
                 /\ last'.op \in EndOps
                 /\ ~isProcessing' /\ ~loading'.visible]_vars
    /\ \A s \in Slots : (tasks[s] # Idle) ~> (tasks[s] = Idle)

\* an export has failed and left the flag cleared and the overlay hidden
C2_Witness ==
    /\ last.op = "mergeAndExport.end" /\ ~last.ok
    /\ ~isProcessing /\ ~loading.visible

\* C3: a processFiles call made while isProcessing is true appends no page
\* and leaves the collection, the selection, isProcessing, the progress
\* display and the operations in flight unchanged.
C3_OverlappingUploadRejected ==
    [][(isProcessing /\ last'.op = "processFiles") =>
          /\ ~last'.accepted
          /\ UNCHANGED <<pages, heap, selectedIds, isProcessing, loading,
                         tasks, pageGrid, nextId>>]_vars

\* an upload was rejected while another one was loading into a collection
\* that already holds selected pages
C3_Witness ==
    /\ last.op = "processFiles" /\ ~last.accepted
    /\ isProcessing /\ selectedIds # {} /\ Len(pages) > 0
    /\ \E s \in Slots : tasks[s].kind = "ingest"

\* C4: for a batch ingested with nothing interleaved, the number of pages
\* added equals the sum of the page counts of the documents decoded before
\* the first failure (all documents if none fails).  The first pass decodes
\* every document before anything is appended, and a thumbnail failure
\* leaves part of a document.
C4_AddedIsSumOfDecoded ==
    last.op = "processFiles.end" => Len(pages) - last.len0 = last.before

\* C5: when a batch fails while processing its k-th document, no page of
\* document k or of a later document of the batch is in the collection
\* after the batch ends.  A thumbnail failure on a later page of document k
\* leaves its earlier pages.
C5_NoPageOfFailedDocument ==
    (last.op = "processFiles.end" /\ ~last.ok) =>
        \A k \in 1..Len(pages) :
            ~(/\ heap[pages[k]].pdfBytes[1] = last.batch
              /\ heap[pages[k]].pdfBytes[2] >= last.doc)
\* ---- handlePageDrop
Count(arr, id) == Cardinality({k \in 1..Len(arr) : arr[k] = id})
\* the pages other than the dragged one, in order
Others(arr) == filter(arr, Range(arr) \ {draggedId})
\* id a sits immediately before id b in arr
Precedes(arr, a, b) == findIndex(arr, a) # -1 /\ findIndex(arr, a) + 1 = findIndex(arr, b)

\* C6: handlePageDrop is a permutation of the collection: for every dragged
\* id and target id, the multiset of page ids and the length are the same
\* before and after the drop.
C6_DropIsPermutation ==
    [][last'.op = "handlePageDrop" =>
          /\ Len(pages') = Len(pages)
          /\ \A id \in PageIds : Count(pages', id) = Count(pages, id)]_vars

\* a drop has moved a page of a collection of three
C6_Witness ==
    last.op = "handlePageDrop" /\ last.moved /\ Len(pages) >= 3

\* C7 as stated: after a drop of s onto t, both present and s # t, s sits
\* immediately before t and the other pages keep their relative order,
\* whether s was before or after t.
C7_DraggedImmediatelyBeforeTarget ==
    [][\A t \in PageIds :
          (HandlePageDrop(t) /\ dropMoves(pages, draggedId, t)) =>
              /\ Precedes(pages', draggedId, t)
              /\ Others(pages') = Others(pages)]_vars

\* C7 as amended: after a drop of s onto t, both present and s # t, s is at
\* the index t had before the drop, which is immediately before t when s
\* was after t and immediately after t when s was before t; the other
\* pages keep their relative order.
C7_DraggedTakesTargetIndex ==
    [][\A t \in PageIds :
          (HandlePageDrop(t) /\ dropMoves(pages, draggedId, t)) =>
              /\ findIndex(pages', draggedId) = findIndex(pages, t)
              /\ IF findIndex(pages, draggedId) > findIndex(pages, t)
                 THEN Precedes(pages', draggedId, t)
                 ELSE Precedes(pages', t, draggedId)
              /\ Others(pages') = Others(pages)]_vars

\* the first page of three was dropped on the last one and now follows it
C7_Witness ==
    /\ last.op = "handlePageDrop" /\ last.moved
    /\ Len(pages) >= 3 /\ pages[Len(pages)] = draggedId
    /\ dragStartIndex = 0 /\ ~last.stale

\* C8: a drop whose dragged id equals its target id, or whose dragged id
\* (null included) or target id is not in the collection, leaves the
\* order of the collection unchanged, and the handler returns normally.
C8_DropWithoutBothIdsIsNoOp ==
    [][\A t \in PageIds :
          (/\ HandlePageDrop(t)
           /\ \/ draggedId = t
              \/ draggedId \notin Range(pages)
              \/ t \notin Range(pages)) =>
              /\ pages' = pages
              /\ last'.op = "handlePageDrop" /\ ~last'.moved]_vars

\* a drop ran while the dragged page was no longer in a non-empty collection
C8_Witness ==
    /\ last.op = "handlePageDrop" /\ ~last.moved
    /\ draggedId # NULL /\ draggedId \notin Range(pages) /\ Len(pages) > 0

\* C9: a drop resolves positions when it happens: whatever was deleted,
\* cleared, reordered or appended since dragstart, the dragged page goes to
\* the index the target has at the moment of the drop and is taken from
\* the index it has at that moment (every other page keeps its relative
\* order); if the dragged or the target page is gone, nothing changes.
C9_ResolvedAtDropTime ==
    [][\A t \in PageIds :
          HandlePageDrop(t) =>
              IF draggedId \in Range(pages) /\ t \in Range(pages) /\ draggedId # t
              THEN /\ pages'[findIndex(pages, t) + 1] = draggedId
                   /\ Others(pages') = Others(pages)
              ELSE pages' = pages]_vars

\* a drop moved a page whose index had changed since dragstart
C9_Witness ==
    last.op = "handlePageDrop" /\ last.moved /\ last.stale

\* C10: handlePageDrop changes only the order of the collection: every page
\* object keeps its id, source bytes, pageIndex, thumbnail and rotation, no
\* page enters or leaves, and the selection is unchanged.
C10_DropChangesOrderOnly ==
    [][last'.op = "handlePageDrop" =>
          /\ heap' = heap
          /\ Range(pages') = Range(pages)
          /\ selectedIds' = selectedIds]_vars

\* a drop moved a page of a collection holding a rotated and a selected page
C10_Witness ==
    /\ last.op = "handlePageDrop" /\ last.moved
    /\ selectedIds # {}
    /\ \E id \in Range(pages) : heap[id].rotation > 0
\* ---- rotatePage
Rotations == {0, 90, 180, 270}
\* the rotation one click leads to
Clicked == [r \in Rotations |-> IF r = 270 THEN 0 ELSE r + 90]

\* C11: rotatePage on a present page maps its rotation 0 -> 90 -> 180 ->
\* 270 -> 0 and changes no other page's rotation; after four successive
\* rotatePage calls on the same page (or a multiple of four) the page has
\* the rotation it had before the first of them.
C11_RotationCycle ==
    /\ [][(last'.op = "rotatePage" /\ last'.found) =>
             /\ heap[last'.id].rotation \in Rotations
             /\ heap'[last'.id].rotation = Clicked[heap[last'.id].rotation]
             /\ DOMAIN heap' = DOMAIN heap
             /\ \A o \in DOMAIN heap \ {last'.id} :
                    heap'[o].rotation = heap[o].rotation]_vars
    /\ []((last.op = "rotatePage" /\ last.found /\ last.n = 0) =>
             heap[last.id].rotation = last.from)

\* a page that stood at 90 degrees has been turned four times in a row,
\* next to another page that stands at 180 degrees
C11_Witness ==
    /\ last.op = "rotatePage" /\ last.found /\ last.n = 0 /\ last.from = 90
    /\ \E o \in Range(pages) \ {last.id} : heap[o].rotation = 180

\* C12: in every reachable state every page of the collection has a
\* rotation in {0, 90, 180, 270}, and a page has rotation 0 at the moment
\* ingestion appends it.
C12_RotationInRange ==
    /\ [](\A k \in 1..Len(pages) : heap[pages[k]].rotation \in Rotations)
    /\ [][Len(pages') > Len(pages) =>
             /\ Len(pages') = Len(pages) + 1
             /\ heap'[pages'[Len(pages')]].rotation = 0]_vars

\* a page is appended next to a page that has gone round to 270 degrees
C12_Witness ==
    /\ last.op = "processFiles.push"
    /\ Len(pages) >= 2
    /\ heap[pages[Len(pages)]].rotation = 0
    /\ \E k \in 1..Len(pages) : heap[pages[k]].rotation = 270
\* ---- deleteSelected and the selection
\* the pages of arr that are also in brr stand in the same order in both
SameOrder(arr, brr) ==
    \A a, b \in Range(arr) \cap Range(brr) :
        (findIndex(arr, a) < findIndex(arr, b)) <=>
            (findIndex(brr, a) < findIndex(brr, b))

\* C13: deleteSelected with a non-empty selection removes exactly the
\* selected pages from the collection, keeps the remaining pages (objects
\* untouched) in their previous relative order, and leaves the selection
\* empty; with an empty selection it changes nothing.
C13_DeleteRemovesSelection ==
    [][last'.op = "deleteSelected" =>
          IF selectedIds = {}
          THEN UNCHANGED <<pages, heap, selectedIds, pageGrid, tasks>>
          ELSE /\ Range(pages') = Range(pages) \ selectedIds
               /\ Len(pages') =
                      Len(pages) - Cardinality(Range(pages) \cap selectedIds)
               /\ SameOrder(pages', pages)
               /\ \A id \in Range(pages') : heap'[id] = heap[id]
               /\ selectedIds' = {}]_vars

\* one of three pages was deleted and two remain
C13_Witness ==
    /\ last.op = "deleteSelected" /\ last.count = 1
    /\ Len(pages) = 2 /\ selectedIds = {}

\* C14: in every reachable state, after any sequence of ingest, toggle,
\* selectAll, delete, clear, reorder, rotate, split and merge events, every
\* id in the selection is the id of a page of the collection.
C14_SelectionWithinCollection == selectedIds \subseteq Range(pages)

\* a split has ended with a page selected after another page was deleted
C14_Witness ==
    /\ last.op = "splitSelected.end" /\ last.ok
    /\ selectedIds # {}
    /\ Len(pages) > 0 /\ Len(pages) < nextId - 1
\* ---- export
\* the pages an export is to take: all of them, or the selected ones, in
\* the order of the collection
ExportSubset(arr, sel) ==
    IF sel = {} THEN arr ELSE SelectSeq(arr, LAMBDA id : id \in sel)

\* the name the 'pages' template gives an export of n pages (n < 10)
PagesName(n) == <<"p", "a", "g", "e", "s", "_", "1", "-", ToString(n)>>

\* the files a step downloads
Emitted(l) == IF "emitted" \in DOMAIN l THEN l.emitted ELSE <<>>

\* the source pages of an output document, in order
SourcePages(doc) ==
    [k \in 1..Len(doc) |-> <<doc[k].pdfBytes, doc[k].pageIndex>>]

\* the source pages of the page objects of a list, in order
SourcesOf(list) ==
    [k \in 1..Len(list) |-> <<heap[list[k]].pdfBytes, heap[list[k]].pageIndex>>]

\* C16: the export subset is the whole collection in collection order when
\* the selection is empty, and otherwise exactly the selected pages in
\* collection order; the preview strip and its page count, the filename
\* of the 'pages' template, and pagesToMerge of mergeAndExport are all
\* computed from that subset of the state they run in.
C16_ExportSubsetRule ==
    [][/\ (last'.op = "showExportPreview" /\ last'.shown) =>
             /\ last'.previewStrip = ExportSubset(pages, selectedIds)
             /\ last'.statPageCount = Len(ExportSubset(pages, selectedIds))
             /\ filenameTemplate = "pages" =>
                    filenameInput' =
                        PagesName(Len(ExportSubset(pages, selectedIds)))
       /\ (last'.op = "selectFilenameTemplate" /\ filenameTemplate' = "pages") =>
             filenameInput' = PagesName(Len(ExportSubset(pages, selectedIds)))
       /\ last'.op = "mergeAndExport.create" =>
             \A s \in Slots :
                 (tasks[s].kind = "merge" /\ tasks[s].pc = "create"
                    /\ tasks'[s] # tasks[s]) =>
                     tasks'[s].list = ExportSubset(pages, selectedIds)]_vars

\* under the 'pages' template a merge has taken the one selected page, the
\* second of a collection whose two pages were exchanged
C16_Witness ==
    /\ last.op = "mergeAndExport.create"
    /\ filenameTemplate = "pages" /\ filenameInput = PagesName(1)
    /\ Len(pages) = 2 /\ pages[1] > pages[2] /\ selectedIds = {pages[2]}
    /\ \E s \in Slots : tasks[s].kind = "merge" /\ tasks[s].list = <<pages[2]>>

\* C17: a merge that succeeds with no other event interleaved emits exactly
\* one output document, whose pages are the pages of the export subset in
\* collection order, one output page per page reference; no step of the
\* merge before its last one emits anything.
C17_MergeEmitsOneDocument ==
    [][\A s \in Slots :
          tasks[s].kind = "merge" =>
              IF tasks'[s] = Idle /\ last'.ok
              THEN /\ Len(Emitted(last')) = 1
                   /\ SourcePages(last'.emitted[1].doc) =
                          SourcesOf(ExportSubset(pages, selectedIds))
              ELSE Emitted(last') = <<>>]_vars

\* pages 1 and 3 of a three-page document were selected after page 3 was
\* moved before page 1: the output is [page 3, page 1]
C17_Witness ==
    /\ last.op = "mergeAndExport.end" /\ last.ok
    /\ Len(pages) = 3 /\ Cardinality(selectedIds) = 2
    /\ Len(last.emitted[1].doc) = 2
    /\ last.emitted[1].doc[1].pageIndex = 2
    /\ last.emitted[1].doc[2].pageIndex = 0
    /\ last.emitted[1].doc[1].pdfBytes = last.emitted[1].doc[2].pdfBytes
    /\ \A k \in 1..3 : heap[pages[k]].pdfBytes = heap[pages[1]].pdfBytes

\* the calls of setRotation the claim allows on the copy of a page
RotationSet(id) ==
    IF heap[id].rotation = 0 THEN <<>> ELSE <<heap[id].rotation>>

\* C18: in merge and in split, the copy of a page with a non-zero rotation
\* is given exactly that value by one setRotation call, and setRotation is
\* not called on the copy of a page with rotation 0; the output depends on
\* the rotation of no page outside the export subset.
C18_RotationApplied ==
    [][\A s \in Slots :
          /\ (tasks[s].kind = "merge" /\ tasks'[s] = Idle /\ last'.ok) =>
                 /\ Len(last'.emitted[1].doc) =
                        Len(ExportSubset(pages, selectedIds))
                 /\ \A k \in 1..Len(last'.emitted[1].doc) :
                        last'.emitted[1].doc[k].setRotation =
                            RotationSet(ExportSubset(pages, selectedIds)[k])
          /\ (tasks[s].kind = "split" /\ tasks[s].pc = "save"
                /\ tasks'[s] # tasks[s] /\ tasks'[s] # Idle) =>
                 /\ Len(last'.emitted[1].doc) = 1
                 /\ last'.emitted[1].doc[1].setRotation =
                        RotationSet(tasks[s].list[tasks[s].i + 1])]_vars

\* a merge of two of three pages: one copied with 270 degrees, one with no
\* setRotation call, while the page left out stands at 180 degrees
C18_Witness ==
    /\ last.op = "mergeAndExport.end" /\ last.ok
    /\ Len(last.emitted[1].doc) = 2
    /\ \E j, k \in 1..2 : /\ last.emitted[1].doc[j].setRotation = <<270>>
                          /\ last.emitted[1].doc[k].setRotation = <<>>
    /\ \E id \in Range(pages) \ selectedIds : heap[id].rotation = 180

\* C19: splitSelected invoked with an empty selection shows the 'Select
\* pages to split' error, emits no document, starts no operation, does
\* not touch isProcessing or the loading overlay, and leaves the collection
\* and the selection unchanged.
C19_SplitNeedsSelection ==
    [][(SplitSelected /\ selectedIds = {}) =>
          /\ last'.op = "splitSelected" /\ ~last'.started
          /\ last'.toast = <<"error", "Select pages to split">>
          /\ Emitted(last') = <<>>
          /\ UNCHANGED <<pages, heap, selectedIds, isProcessing, loading,
                         tasks>>]_vars

\* split was refused with pages in the collection while an upload was in
\* flight
C19_Witness ==
    /\ last.op = "splitSelected" /\ ~last.started
    /\ selectedIds = {} /\ Len(pages) > 0
    /\ isProcessing /\ InFlight # {}

\* C20: a split that succeeds emits exactly one single-page document per
\* page that was selected when split was invoked, in the collection order
\* of that moment, the i-th file being named page_i.pdf, whatever
\* selection, delete or reorder events occur while it is in flight: the
\* list is taken at the call, never changes, is emitted one page per save
\* in order, and the split ends after the last page.
C20_SplitEmitsSelectionAtCall ==
    [][\A s \in Slots :
          /\ (tasks[s] = Idle /\ tasks'[s].kind = "split") =>
                 /\ selectedIds # {}
                 /\ tasks'[s].list = SelectSeq(pages, LAMBDA id : id \in selectedIds)
                 /\ tasks'[s].i = 0
                 /\ Emitted(last') = <<>>
          /\ (tasks[s].kind = "split" /\ tasks'[s].kind = "split") =>
                 /\ tasks'[s].list = tasks[s].list
                 /\ IF tasks[s].pc = "save" /\ tasks'[s].pc = "delay"
                    THEN /\ tasks'[s].i = tasks[s].i
                         /\ Len(last'.emitted) = 1
                         /\ last'.emitted[1].name =
                                <<"page_", tasks[s].i + 1, ".pdf">>
                         /\ SourcePages(last'.emitted[1].doc) =
                                SourcesOf(<<tasks[s].list[tasks[s].i + 1]>>)
                    ELSE /\ tasks'[s].i \in
                                {tasks[s].i,
                                 IF tasks[s].pc = "delay" THEN tasks[s].i + 1
                                 ELSE tasks[s].i}
                         /\ (tasks'[s] # tasks[s]) => Emitted(last') = <<>>
          /\ (tasks[s].kind = "split" /\ tasks'[s] = Idle /\ last'.ok) =>
                 /\ tasks[s].pc = "delay"
                 /\ tasks[s].i + 1 = Len(tasks[s].list)
                 /\ Emitted(last') = <<>>]_vars

\* a split of two pages has succeeded although pages were deleted while it
\* was in flight
C20_Witness ==
    /\ last.op = "splitSelected.end" /\ last.ok
    /\ last.toast = <<"success", "Split", 2>>
    /\ Len(pages) < 2

\* the files a split has passed to downloadBlob before the page it is at:
\* one for every earlier page of its list
SentBefore(t) == IF t.kind = "split" THEN t.i ELSE 0

\* C21: when a step of a merge or of a split fails (load, copy, rotate or
\* serialize), the attempt ends with an error notification and no success
\* notification, processes no further page, and no output document of
\* that attempt has been passed to downloadBlob.  A split downloads
\* page_1.pdf, page_2.pdf, ... one by one inside its loop: the files of
\* the pages before the failing one are already emitted.
C21_FailedExportEmitsNothing ==
    [][\A s \in Slots :
          (/\ tasks[s].kind \in {"merge", "split"}
           /\ tasks'[s] = Idle
           /\ ~last'.ok) =>
              /\ last'.toast[1] = "error"
              /\ Emitted(last') = <<>>
              /\ SentBefore(tasks[s]) = 0]_vars

\* ---- filename
HasInvalidChar(str) ==
    \E k \in 1..Len(str) :
        str[k] \in {"\\", "/", ":", "*", "?", "\"", "<", ">", "|"}

\* C22: validateFilenameInput checks the trimmed filename in the order
\* empty, longer than 100 characters, invalid character, and reports the
\* first failing rule only: a name of exactly 100 valid characters is
\* accepted, a name over 100 characters that also holds an invalid
\* character is reported as too long.
C22_ValidationOrder ==
    [][\A value \in TypedNames :
          InputFilename(value) =>
              LET v == trim(value)
              IN /\ last'.error =
                        IF Len(v) = 0 THEN "Filename cannot be empty"
                        ELSE IF Len(v) > 100
                        THEN "Filename too long (max 100 characters)"
                        ELSE IF HasInvalidChar(v) THEN "Invalid characters"
                        ELSE ""
                 /\ (Len(v) \in 1..100 /\ ~HasInvalidChar(v)) =>
                        ~confirmDisabled' /\ currentFilename' = v]_vars

\* a name of 101 characters, one of them invalid, was typed and reported
\* as too long
C22_Witness ==
    /\ last.op = "validateFilenameInput"
    /\ Len(trim(filenameInput)) = 101 /\ HasInvalidChar(filenameInput)
    /\ last.error = "Filename too long (max 100 characters)"

MergedName == <<"m", "e", "r", "g", "e", "d">>

\* document_YYYY-MM-DD
IsDateName(str) ==
    /\ Len(str) = 19
    /\ SubSeq(str, 1, 9) = <<"d", "o", "c", "u", "m", "e", "n", "t", "_">>
    /\ \A k \in 10..19 :
           IF k \in {14, 17} THEN str[k] = "-"
           ELSE str[k] \in {ToString(d) : d \in 0..9}

\* the name a template gives an export of n pages, `typed` being the text
\* of the filename input before
DerivedName(template, name, typed, n) ==
    CASE template = "merged" -> name = MergedName
      [] template = "pages" -> name = PagesName(n)
      [] template = "date" -> IsDateName(name)
      [] template = "custom" ->
             name = IF typed = <<>> THEN MergedName ELSE typed

\* C23: updateFilenameFromTemplate derives the filename from the active
\* template: 'merged' gives "merged", 'pages' gives pages_1-N with N the
\* size of the export subset, 'date' gives document_YYYY-MM-DD, 'custom'
\* keeps the text of the input verbatim, or gives "merged" when that text
\* is empty.
C23_TemplateFilename ==
    [][/\ \A template \in Templates :
             SelectFilenameTemplate(template) =>
                 /\ filenameTemplate' = template
                 /\ DerivedName(template, filenameInput', filenameInput,
                                Len(ExportSubset(pages, selectedIds)))
       /\ (ShowExportPreview /\ pages # <<>>) =>
             DerivedName(filenameTemplate, filenameInput', filenameInput,
                         Len(ExportSubset(pages, selectedIds)))]_vars

\* the 'custom' template was chosen over a typed name with blanks around
\* it: the input keeps the blanks
C23_Witness ==
    /\ last.op = "selectFilenameTemplate" /\ filenameTemplate = "custom"
    /\ filenameInput = <<" ", "a", " ">>

\* C24: while the filename of the export dialog fails validation the
\* confirm button is disabled, and confirmAndExport starts no merge:
\* isProcessing stays false, no handler is suspended, the dialog stays
\* open and no document is emitted.
C24_InvalidNameBlocksExport ==
    /\ [](modalVisible /\ filenameError(filenameInput) # ""
            => confirmDisabled)
    /\ [][(ConfirmAndExport /\ filenameError(filenameInput) # "") =>
              /\ ~isProcessing' /\ InFlight = {} /\ UNCHANGED tasks
              /\ modalVisible'
              /\ Emitted(last') = <<>> /\ ~last'.started]_vars

\* confirm was clicked over a name with an invalid character, with pages
\* to export
C24_Witness ==
    /\ last.op = "confirmAndExport" /\ ~last.started
    /\ modalVisible /\ confirmDisabled /\ pages # <<>>
    /\ HasInvalidChar(filenameInput)

\* ---- size estimate
RECURSIVE SumOfSourceShares(_, _)
\* for every source buffer of the pages of list: its length times the
\* pages of list taken from it, over the page count of its document
SumOfSourceShares(sources, list) ==
    IF sources = {} THEN 0
    ELSE LET b == CHOOSE x \in sources : TRUE
             used == Cardinality({k \in 1..Len(list) :
                                      heap[list[k]].pdfBytes = b})
         IN (byteLength(b) * used) \div getPageCount(b)
            + SumOfSourceShares(sources \ {b}, list)

\* C25: the size estimateFileSize shows for the export subset is the sum,
\* over the distinct source buffers, of byteLength * (pages of the subset
\* from that buffer / page count of that source document), scaled by
\* 0.85, the page count being the document's own even after some of its
\* pages were deleted from the collection.  The code divides by the
\* number of pages of that buffer still in state.pages.
C25_EstimateUsesSourcePageCount ==
    (last.op = "showExportPreview" /\ last.shown) =>
        LET list == ExportSubset(pages, selectedIds)
            sources == {heap[list[k]].pdfBytes : k \in 1..Len(list)}
        IN last.statFileSize =
               formatSize((SumOfSourceShares(sources, list) * 85) \div 100)

\* ---- frame of the exports
\* the steps of the preview, of merge and of split
ExportSteps ==
    {"showExportPreview", "confirmAndExport", "mergeAndExport.create",
     "mergeAndExport.copy", "mergeAndExport.end", "splitSelected",
     "splitSelected.copy", "splitSelected.save", "splitSelected.next",
     "splitSelected.end"}

\* C26: no step of the preview, of a merge or of a split creates, removes,
\* reorders or modifies an entry of the collection or changes the
\* selection; an id enters the collection by an ingestion only and leaves
\* it by deleteSelected or clearAll only.
C26_ExportsLeaveCollection ==
    [][/\ last'.op \in ExportSteps =>
             /\ pages' = pages /\ selectedIds' = selectedIds
             /\ \A id \in Range(pages) : heap'[id] = heap[id]
       /\ Range(pages') \ Range(pages) # {} =>
             last'.op \in {"processFiles.push", "processFiles.end"}
       /\ Range(pages) \ Range(pages') # {} =>
             last'.op \in {"deleteSelected", "clearAll"}]_vars

\* a split of the one selected page of two has ended: both pages and the
\* selection are still there
C26_Witness ==
    /\ last.op = "splitSelected.end" /\ last.ok
    /\ Len(pages) = 2 /\ selectedIds = {pages[2]}

\* ---- upload entry points
\* C27: through both upload entry points (the drop and the file picker)
\* the files that are no PDF are left out before the ingestion starts, so
\* that every file an ingestion works on is a PDF file.  handleFileSelect
\* hands e.target.files to processFiles as they are.
C27_OnlyPdfFilesIngested ==
    \A s \in Slots :
        tasks[s].kind = "ingest" =>
            \A k \in 1..Len(tasks[s].files) :
                tasks[s].files[k].type = "application/pdf"

\* ---- empty collection
\* C28: the export preview and the merge, called on an empty collection,
\* show their 'no pages' message and do nothing else: no document is
\* emitted, isProcessing is not set, no handler is suspended, the loading
\* overlay and the collection are untouched and the dialog is not opened.
C28_EmptyCollectionIsRefused ==
    [][/\ (ShowExportPreview /\ pages = <<>>) =>
             /\ last'.toast = <<"error", "No pages to export">>
             /\ Emitted(last') = <<>>
             /\ UNCHANGED <<pages, heap, selectedIds, isProcessing, tasks,
                            loading, modalVisible, currentFilename,
                            filenameInput>>
       /\ (ConfirmAndExport /\ pages = <<>>
              /\ filenameError(filenameInput) = "") =>
             /\ last'.toast = <<"error", "No pages to merge">>
             /\ Emitted(last') = <<>>
             /\ ~modalVisible'
             /\ UNCHANGED <<pages, heap, selectedIds, isProcessing, tasks,
                            loading>>]_vars

\* the collection was cleared under the open dialog and the merge was
\* confirmed
C28_Witness ==
    /\ last.op = "confirmAndExport"
    /\ last.toast = <<"error", "No pages to merge">>
    /\ pages = <<>> /\ ~isProcessing /\ InFlight = {}

\* ---- ingestion order
\* C29: an ingestion appends each of its pages after all the pages the
\* collection holds, in the order of the documents of the batch and,
\* within a document, by increasing pageIndex from 0; the pages of one
\* document share one buffer, the pages already there are untouched, and
\* the ingestion ends in success once the last page of the last document
\* is appended.
C29_IngestionAppendsInOrder ==
    [][\A s \in Slots :
          IngestThumb(s, TRUE) =>
              LET t == tasks[s]
                  n == t.processedPages
                  f == CHOOSE d \in 1..Len(t.files) :
                           SumPc(t.files, d - 1) <= n /\ n < SumPc(t.files, d)
                  new == pages'[Len(pages')]
              IN /\ Len(pages') = Len(pages) + 1
                 /\ SubSeq(pages', 1, Len(pages)) = pages
                 /\ new \notin Range(pages)
                 /\ heap'[new].pageIndex = n - SumPc(t.files, f - 1)
                 /\ heap'[new].pdfBytes[1] = t.batch
                 /\ heap'[new].pdfBytes[2] = f
                 /\ \A id \in DOMAIN heap :
                        /\ heap'[id] = heap[id]
                        /\ (heap[id].pdfBytes[1] = t.batch
                              /\ heap[id].pdfBytes[2] = f) =>
                               heap[id].pdfBytes = heap'[new].pdfBytes
                 /\ (tasks'[s] = Idle) <=>
                        (n + 1 = SumPc(t.files, Len(t.files)))]_vars

\* a second upload, of a two-page document, has ended behind the page of
\* the first
C29_Witness ==
    /\ last.op = "processFiles.end" /\ last.ok /\ last.len0 = 1
    /\ Len(pages) = 3
    /\ heap[pages[2]].pageIndex = 0 /\ heap[pages[3]].pageIndex = 1
    /\ heap[pages[2]].pdfBytes = heap[pages[3]].pdfBytes
    /\ heap[pages[1]].pdfBytes # heap[pages[2]].pdfBytes

\* ---- selection toggle
\* C30: togglePageSelection(id) flips the membership of id in the
\* selection and of no other id, leaves the collection as it is, and
\* toggling the same id a second time gives the selection back.
C30_ToggleFlipsOneId ==
    /\ [][\A id \in PageIds :
              TogglePageSelection(id) =>
                  /\ (id \in selectedIds') <=> (id \notin selectedIds)
                  /\ selectedIds' \ {id} = selectedIds \ {id}
                  /\ UNCHANGED <<pages, heap>>]_vars
    /\ [](\A id \in Range(pageGrid) :
              toggled(toggled(selectedIds, id), id) = selectedIds)

\* the second of three pages was clicked while the first was selected
C30_Witness ==
    /\ last.op = "togglePageSelection"
    /\ Len(pages) = 3 /\ selectedIds = {pages[1], pages[2]}

\* ---- the flag over the whole operation
\* C31: isProcessing is true in every state in which an ingestion, a merge
\* or a split is in flight; the end of one operation never clears the
\* flag while another one is still running.  Every finally block sets
\* the flag to false whatever else is in flight.
C31_FlagHeldWhileInFlight == InFlight # {} => isProcessing

\* ---- rendered grid
\* C34: whenever no ingestion is in flight, the page grid shows exactly
\* the pages of the collection, in collection order, also after an
\* ingestion that failed part-way.  The catch block of processFiles does
\* not call renderPages.
C34_GridShowsCollection ==
    (\A s \in Slots : tasks[s].kind # "ingest") => pageGrid = pages

\* ---- merge under interleaved events
\* C32: a merge exports a snapshot: whatever toggle, selectAll, delete,
\* clear, reorder and ingestion events run while it is in flight, the
\* pages of the document it emits are the pages of the export subset of
\* the state mergeAndExport was called in, none duplicated, none skipped.
\* pagesToMerge is taken after the first await, and with no selection it
\* is the state.pages array itself.
C32_MergeExportsSnapshot ==
    [][\A s \in Slots :
          (tasks[s].kind = "merge" /\ tasks'[s] = Idle /\ last'.ok) =>
              /\ Len(Emitted(last')) = 1
              /\ SourcePages(last'.emitted[1].doc) = tasks[s].asked]_vars

\* ---- name of the merged document
\* a name validateFilenameInput accepts
PassesValidation(name) ==
    LET v == trim(name)
    IN Len(v) \in 1..100 /\ ~HasInvalidChar(v)

\* C33: the name of every merged document that is emitted is a name that
\* passes validateFilenameInput followed by ".pdf", whatever template
\* selections, edits of the filename, openings of the dialog and
\* confirmations came before, also while the merge was in flight.
\* updateFilenameFromTemplate stores the derived name in
\* state.currentFilename before it is validated, and mergeAndExport reads
\* state.currentFilename when it downloads.
C33_EmittedNameIsValid ==
    (last.op = "mergeAndExport.end" /\ last.ok) =>
        \A k \in 1..Len(last.emitted) :
            LET name == last.emitted[k].name
            IN /\ Len(name) >= 1 /\ name[Len(name)] = ".pdf"
               /\ PassesValidation(SubSeq(name, 1, Len(name) - 1))

\* ---- orientation on export
\* C35: the orientation of an exported page is the one its preview shows:
\* for a source page with stored rotation r and user rotation d the
\* rotation of the output page is (r + d) mod 360, for all r and d in
\* {0, 90, 180, 270}.  The code calls setRotation(d) on the copy when
\* d > 0, which replaces r.
C35_OutputRotationIsSum ==
    [][\A s \in Slots :
          (tasks[s].kind = "merge" /\ tasks'[s] = Idle /\ last'.ok) =>
              LET doc == last'.emitted[1].doc
                  list == ExportSubset(pages, selectedIds)
              IN /\ Len(doc) = Len(list)
                 /\ \A k \in 1..Len(doc) :
                        rotationOf(doc[k]) =
                            (storedRotation(heap[list[k]].pdfBytes)
                               + heap[list[k]].rotation) % 360]_vars

\* ---- frame of an ingestion
\* C36: no step of an ingestion, whether the ingestion succeeds or fails,
\* removes, reorders or modifies a page that is in the collection, or
\* changes the selection: the start of processFiles leaves the collection
\* as it is, and every continuation keeps state.pages as a prefix of the
\* new state.pages and every page object as it was.
C36_IngestionKeepsCollection ==
    [][/\ \A files \in BatchesOfFiles :
             ProcessFiles(files) => UNCHANGED <<pages, heap, selectedIds>>
       /\ \A s \in Slots, ok \in BOOLEAN :
             (IngestCount(s, ok) \/ IngestOpen(s, ok) \/ IngestThumb(s, ok)) =>
                 /\ selectedIds' = selectedIds
                 /\ Len(pages') >= Len(pages)
                 /\ SubSeq(pages', 1, Len(pages)) = pages
                 /\ \A id \in Range(pages) : heap'[id] = heap[id]]_vars

\* a second upload failed after it had appended a page behind a selected
\* page of the first
C36_Witness ==
    /\ last.op = "processFiles.end" /\ ~last.ok
    /\ last.len0 = 1 /\ Len(pages) = 2 /\ selectedIds = {pages[1]}
    /\ heap[pages[1]].pdfBytes # heap[pages[2]].pdfBytes
====
